---- MODULE Spec2Model ----
(***************************************************************************)
(* Workout tracker: the workout-session lifecycle of src/App.tsx (start,   *)
(* mutate, mirror into the unfinished list, finish into history, resume,   *)
(* discard), the personal-record computation, and the rest timer of        *)
(* src/hooks/useTimer.ts.                                                  *)
(*                                                                         *)
(* A WorkoutSet is [weight, reps, completed], a SessionEntry is            *)
(* [exerciseId, notes, sets], a WorkoutSession is                          *)
(* [id, date, routineId, entries, ended].  The id fields of sets and       *)
(* entries are written by createId() and read only as React keys           *)
(* (App.tsx:771, 810), so they are not part of the model.  A null          *)
(* routineId is 0; a null activeWorkout is the record NULL.                *)
(***************************************************************************)
EXTENDS Integers, Sequences, FiniteSets, TLC

\* ---------------------------------------------------------------- bounds
\* sessions created in one run (createId is unbounded)
MaxSessions == 2
\* sets the Add Set button may bring an entry to
MaxSets == 1
\* greatest weight and reps typed into a set row
MaxWeight == 2
MaxReps == 1
\* greatest configured rest duration, in seconds
MaxRest == 1
\* greatest rest duration typed into the rest timer field
MaxDuration == 3
\* ids createId hands out where the catalog is edited, and messages shown there
MaxIds == 4
MaxAlerts == 1
\* sets the Add Set button may bring an entry to where sets are edited side by side
MaxFrameSets == 2

\* the texts typed into a notes field
NoteTexts == {"", "slow"}

\* ----------------------------------------------------------------- state
VARIABLES
    exercises,           \* App.tsx:44  exercise catalog
    routines,            \* App.tsx:45  routines
    workoutHistory,      \* App.tsx:46  finished sessions, newest first
    restDuration,        \* App.tsx:47  configured rest duration (seconds)
    unfinishedWorkouts,  \* App.tsx:48  mirrored, resumable sessions
    currentView,         \* App.tsx:51  the view on screen
    activeWorkout,       \* App.tsx:52  the session being edited, or NULL
    timer,               \* useTimer.ts:4-8 timeLeft, isActive, timerRef, the
                         \*             intervals the browser has scheduled, the
                         \*             onComplete of the last render, onCompleteRef,
                         \*             and the callback invoked last
    onCompleteCalls,     \* invocations of onComplete since the last startTimer
    clock,               \* Date.now()
    nextId,              \* createId(): the next fresh id
    editingRoutine,      \* App.tsx:53  the routine in the routine editor, or NULL
    editingExercise,     \* App.tsx:55  the exercise in the edit modal, or NULL
    isEditExerciseModalOpen,  \* App.tsx:62
    alerts,              \* the messages shown with alert(), oldest first
    isDeleteSetConfirmModalOpen,  \* App.tsx:65
    setToDelete,         \* App.tsx:66  the set the dialog asks about, or NULL
    viewingHistoryItem,  \* App.tsx:54  the session of the history detail view, or NULL
    refs                 \* the identities of the session objects in memory: of
                         \* activeWorkout, of the activeWorkout the mirroring
                         \* effect ran for last, and of each unfinished workout

vars == <<exercises, routines, workoutHistory, restDuration, unfinishedWorkouts,
          currentView, activeWorkout, timer, onCompleteCalls, clock, nextId,
          editingRoutine, editingExercise, isEditExerciseModalOpen, alerts,
          isDeleteSetConfirmModalOpen, setToDelete, viewingHistoryItem, refs>>

NULL == [id |-> 0]

\* ------------------------------------------------------- array helpers
\* Array.prototype.filter is SelectSeq.  Indexes are 1-based; an index of 0 is
\* the -1 of findIndex and the undefined of find.

\* prev.findIndex(w => w.id === id)
indexOfWorkout(workouts, id) ==
    IF \E i \in 1..Len(workouts) : workouts[i].id = id
    THEN CHOOSE i \in 1..Len(workouts) :
            /\ workouts[i].id = id
            /\ \A j \in 1..(i-1) : workouts[j].id # id
    ELSE 0

\* entries.find(e => e.exerciseId === exerciseId)
indexOfExercise(entries, exerciseId) ==
    IF \E i \in 1..Len(entries) : entries[i].exerciseId = exerciseId
    THEN CHOOSE i \in 1..Len(entries) :
            /\ entries[i].exerciseId = exerciseId
            /\ \A j \in 1..(i-1) : entries[j].exerciseId # exerciseId
    ELSE 0

\* sets.some(s => s.completed)
someCompleted(sets) == \E i \in 1..Len(sets) : sets[i].completed

\* Array.prototype.splice(index, 1), 1-based
removeAt(seq, i) == SubSeq(seq, 1, i-1) \o SubSeq(seq, i+1, Len(seq))

\* Array.prototype.splice(index, 0, item), 1-based
insertAt(seq, i, item) == SubSeq(seq, 1, i-1) \o <<item>> \o SubSeq(seq, i, Len(seq))

\* a sort that puts the oldest session first
RECURSIVE sortByDateDesc_Ascending(_)
sortByDateDesc_Ascending(seq) ==
    IF seq = <<>> THEN <<>>
    ELSE LET rest == sortByDateDesc_Ascending(SubSeq(seq, 1, Len(seq)-1))
             x == seq[Len(seq)]
             k == Cardinality({i \in 1..Len(rest) : rest[i].date <= x.date})
         IN SubSeq(rest, 1, k) \o <<x>> \o SubSeq(rest, k+1, Len(rest))

\* Array.prototype.sort((a, b) => b.date - a.date): stable, descending by date
RECURSIVE sortByDateDesc(_)
sortByDateDesc(seq) ==
    IF seq = <<>> THEN <<>>
    ELSE LET rest == sortByDateDesc(SubSeq(seq, 1, Len(seq)-1))
             x == seq[Len(seq)]
             \* x goes after every element whose date is >= its own
             k == Cardinality({i \in 1..Len(rest) : rest[i].date >= x.date})
         IN insertAt(rest, k+1, x)

\* sets.filter(s => s.completed)
completedSets(sets) == SelectSeq(sets, LAMBDA s : s.completed)

\* ----------------------------------------------------------- rest timer
NoInterval == 0

\* window.setInterval returns a handle no live interval has
newInterval(t) == CHOOSE id \in 1..(Cardinality(t.intervals)+1) : id \notin t.intervals

\* a stop that forgets the handle without clearing the interval
stopTimer_LeavesInterval(t) == [t EXCEPT !.timerRef = NoInterval, !.isActive = FALSE]

\* a stop that clears the interval and leaves the timer marked as running
stopTimer_StaysActive(t) ==
    [t EXCEPT !.intervals = IF t.timerRef # NoInterval THEN @ \ {t.timerRef} ELSE @,
              !.timerRef = NoInterval]

stopTimer(t) ==
    [t EXCEPT !.intervals = IF t.timerRef # NoInterval THEN @ \ {t.timerRef} ELSE @,
              !.timerRef = NoInterval,
              !.isActive = FALSE]

\* a start that leaves the remaining time of the countdown before it
startTimer_KeepsTime(t, duration) ==
    LET s == stopTimer(t)
        id == newInterval(s)
    IN [s EXCEPT !.isActive = TRUE,
                 !.timerRef = id,
                 !.intervals = @ \cup {id}]

\* a start that does not stop the countdown before it
startTimer_NoStop(t, duration) ==
    LET id == newInterval(t)
    IN [t EXCEPT !.timeLeft = duration,
                 !.isActive = TRUE,
                 !.timerRef = id,
                 !.intervals = @ \cup {id}]

startTimer(t, duration) ==
    LET s == stopTimer(t)
        id == newInterval(s)
    IN [s EXCEPT !.timeLeft = duration,
                 !.isActive = TRUE,
                 !.timerRef = id,
                 !.intervals = @ \cup {id}]

resetTimer(t, duration) == [stopTimer(t) EXCEPT !.timeLeft = duration]

\* the callbacks a caller passes to useTimer; App passes onTimerComplete
Callbacks == {"onTimerComplete", "other"}

\* a render that does not run the effect on onComplete
rendered_WithoutEffect(t, onComplete) == [t EXCEPT !.onComplete = onComplete]

\* a render of the caller with onComplete, and the effect of useTimer.ts:10-12
rendered(t, onComplete) ==
    [t EXCEPT !.onComplete = onComplete, !.onCompleteRef = onComplete]

\* stopTimer(); onCompleteRef.current(); return 0 (useTimer.ts:29-31)
completed(t) == [stopTimer(t) EXCEPT !.timeLeft = 0, !.invoked = t.onCompleteRef]

\* ------------------------------------------------------------ mirroring
\* a mirroring step that pushes without looking for the session's id
MirrorActiveWorkout_AlwaysPush(prev, active) ==
    IF active = NULL THEN prev ELSE Append(prev, active)

\* an effect that stores a session once and never writes it again
MirrorActiveWorkout_KeepStored(prev, active) ==
    IF active = NULL \/ indexOfWorkout(prev, active.id) # 0 THEN prev
    ELSE Append(prev, active)

\* the effect that runs after every change of activeWorkout
MirrorActiveWorkout(prev, active) ==
    IF active = NULL THEN prev
    ELSE LET existingIndex == indexOfWorkout(prev, active.id)
         IN IF existingIndex # 0
            THEN [prev EXCEPT ![existingIndex] = active]
            ELSE Append(prev, active)

\* a removal that leaves the list as it is
removeWorkout_Keep(prev, workoutId) == prev

\* a removal that empties the list
removeWorkout_Clear(prev, workoutId) == <<>>

\* a removal of the first session, whatever its id
removeWorkout_First(prev, workoutId) == IF prev = <<>> THEN prev ELSE Tail(prev)

\* prev.filter(w => w.id !== workoutId), of finishWorkout and discardWorkout
removeWorkout(prev, workoutId) == SelectSeq(prev, LAMBDA w : w.id # workoutId)

\* ------------------------------------------------------ personal records
\* the useMemo of App.tsx:137-162: a map from exercise id to {weight, reps}
\* a scan in which a later set of equal weight replaces the record
prOf_LastMax(exerciseId, allHistory) ==
    LET scanned == SelectSeq(allHistory, LAMBDA session : session.ended)
        RECURSIVE scanSets(_, _, _)
        scanSets(sets, i, pr) ==
            IF i > Len(sets) THEN pr
            ELSE scanSets(sets, i+1,
                          IF sets[i].weight >= pr.weight
                          THEN [weight |-> sets[i].weight, reps |-> sets[i].reps]
                          ELSE pr)
        RECURSIVE scanSessions(_, _)
        scanSessions(i, pr) ==
            IF i > Len(scanned) THEN pr
            ELSE LET k == indexOfExercise(scanned[i].entries, exerciseId)
                 IN scanSessions(i+1,
                                 IF k # 0
                                 THEN scanSets(completedSets(scanned[i].entries[k].sets), 1, pr)
                                 ELSE pr)
    IN scanSessions(1, [weight |-> 0, reps |-> 0])

\* the scan of App.tsx:141-156 for one exercise: pr after all ended sessions
prOf(exerciseId, allHistory) ==
    LET scanned == SelectSeq(allHistory, LAMBDA session : session.ended)
        RECURSIVE scanSets(_, _, _)
        scanSets(sets, i, pr) ==
            IF i > Len(sets) THEN pr
            ELSE scanSets(sets, i+1,
                          IF sets[i].weight > pr.weight
                          THEN [weight |-> sets[i].weight, reps |-> sets[i].reps]
                          ELSE pr)
        RECURSIVE scanSessions(_, _)
        scanSessions(i, pr) ==
            IF i > Len(scanned) THEN pr
            ELSE LET k == indexOfExercise(scanned[i].entries, exerciseId)
                 IN scanSessions(i+1,
                                 IF k # 0
                                 THEN scanSets(completedSets(scanned[i].entries[k].sets), 1, pr)
                                 ELSE pr)
    IN scanSessions(1, [weight |-> 0, reps |-> 0])

personalRecords ==
    LET allHistory == IF activeWorkout = NULL THEN workoutHistory
                      ELSE Append(workoutHistory, activeWorkout)
        ids == {exercises[i].id : i \in 1..Len(exercises)}
    IN [id \in {e \in ids : prOf(e, allHistory).weight > 0} |-> prOf(id, allHistory)]

\* -------------------------------------------------------------- initial
\* no editor is open and no message was shown
InitEditors ==
    /\ editingRoutine = NULL
    /\ editingExercise = NULL
    /\ isEditExerciseModalOpen = FALSE
    /\ alerts = <<>>
    /\ isDeleteSetConfirmModalOpen = FALSE
    /\ setToDelete = NULL
    /\ viewingHistoryItem = NULL

\* no session object exists: 0 stands for null
InitRefs == refs = [active |-> 0, mirrored |-> 0, stored |-> <<>>]

Init ==
    /\ exercises = << [id |-> 1, name |-> "squat", bodyPart |-> "legs"],
                    [id |-> 2, name |-> "bench", bodyPart |-> "chest"] >>
    /\ routines = << [id |-> 1, name |-> "full body", exerciseIds |-> <<1, 2>>] >>
    /\ workoutHistory = <<>>
    /\ restDuration \in 1..MaxRest
    /\ unfinishedWorkouts = <<>>
    /\ currentView = "routines"
    /\ activeWorkout = NULL
    /\ timer = [timeLeft |-> restDuration, isActive |-> FALSE,
                timerRef |-> NoInterval, intervals |-> {},
                onComplete |-> "onTimerComplete", onCompleteRef |-> "onTimerComplete",
                invoked |-> "none"]
    /\ onCompleteCalls = 0
    /\ clock = 1
    /\ nextId = 1
    /\ InitEditors
    /\ InitRefs

\* the Delete Set confirmation dialog (App.tsx:65-66)
deleteDialog == <<isDeleteSetConfirmModalOpen, setToDelete>>

\* the editors and dialogs of the catalog
editors == <<editingRoutine, editingExercise, isEditExerciseModalOpen, alerts,
             deleteDialog, viewingHistoryItem>>

\* the state the session operations leave alone; the identities of the objects
\* are followed by the steps of SpecAlias only
catalog == <<exercises, routines, restDuration, editors, refs>>

\* ------------------------------------------------------------ workouts
\* startWorkout(routine): r is an index into routines, or 0 for a blank workout
newWorkoutFor(r) ==
    LET routine == IF r = 0 THEN NULL ELSE routines[r]
        matching == SelectSeq(workoutHistory, LAMBDA s : s.ended /\ s.routineId = routine.id)
        sorted == sortByDateDesc(matching)
        lastSession == IF r # 0 /\ sorted # <<>> THEN sorted[1] ELSE NULL
        seed(exerciseId) ==
            LET k == IF lastSession = NULL THEN 0
                     ELSE indexOfExercise(lastSession.entries, exerciseId)
                done == IF k = 0 THEN <<>> ELSE completedSets(lastSession.entries[k].sets)
            IN [exerciseId |-> exerciseId,
                notes |-> "",
                sets |-> IF Len(done) > 0
                         THEN [i \in 1..Len(done) |->
                                 [weight |-> done[i].weight, reps |-> done[i].reps,
                                  completed |-> FALSE]]
                         ELSE << [weight |-> 0, reps |-> 0, completed |-> FALSE] >>]
    IN [id |-> nextId,
        date |-> clock,
        routineId |-> IF r = 0 THEN 0 ELSE routine.id,
        entries |-> IF r = 0 THEN <<>>
                    ELSE [i \in 1..Len(routine.exerciseIds) |-> seed(routine.exerciseIds[i])],
        ended |-> FALSE]

startWorkout(r) ==
    /\ currentView = "routines"
    /\ activeWorkout' = newWorkoutFor(r)
    /\ unfinishedWorkouts' = MirrorActiveWorkout(unfinishedWorkouts, activeWorkout')
    /\ currentView' = "workout"
    /\ timer' = stopTimer(timer)
    /\ nextId' = nextId + 1
    /\ clock' = clock + 1
    /\ UNCHANGED <<catalog, workoutHistory, onCompleteCalls>>

\* the session operations below are reached from the workout view only, which
\* renders nothing when activeWorkout is null (App.tsx:691)
inWorkout == currentView = "workout" /\ activeWorkout # NULL

\* setActiveWorkout(updatedWorkout) followed by the mirroring effect
updateActiveWorkout(updatedWorkout) ==
    /\ activeWorkout' = updatedWorkout
    /\ unfinishedWorkouts' = MirrorActiveWorkout(unfinishedWorkouts, updatedWorkout)

\* a replacement of the sets of every entry
withSets_EveryEntry(workout, entryIndex, sets) ==
    [workout EXCEPT !.entries = [k \in DOMAIN @ |-> [@[k] EXCEPT !.sets = sets]]]

withSets(workout, entryIndex, sets) ==
    [workout EXCEPT !.entries[entryIndex].sets = sets]

addSetTo(workout, entryIndex) ==
    LET sets == workout.entries[entryIndex].sets
        \* lastSet?.weight || 0
        lastW == IF sets = <<>> THEN 0 ELSE sets[Len(sets)].weight
        lastR == IF sets = <<>> THEN 0 ELSE sets[Len(sets)].reps
    IN withSets(workout, entryIndex,
                Append(sets, [weight |-> lastW, reps |-> lastR, completed |-> FALSE]))

addSet(entryIndex) ==
    /\ inWorkout
    /\ entryIndex \in 1..Len(activeWorkout.entries)
    /\ updateActiveWorkout(addSetTo(activeWorkout, entryIndex))
    /\ UNCHANGED <<catalog, workoutHistory, currentView, timer, onCompleteCalls, clock, nextId>>

\* { ...originalSet, ...newSetData }: newSetData has some of the fields of a set
mergeSet(originalSet, newSetData) ==
    [f \in DOMAIN originalSet |->
        IF f \in DOMAIN newSetData THEN newSetData[f] ELSE originalSet[f]]

\* a test that takes every update of completed for a completion
startsRest_AnyToggle(originalSet, newSetData) ==
    "completed" \in DOMAIN newSetData

\* newSetData.completed && !originalSet.completed
startsRest(originalSet, newSetData) ==
    /\ "completed" \in DOMAIN newSetData
    /\ newSetData.completed
    /\ ~originalSet.completed

updateSet(entryIndex, setIndex, newSetData) ==
    LET originalSet == activeWorkout.entries[entryIndex].sets[setIndex]
    IN /\ updateActiveWorkout([activeWorkout EXCEPT
              !.entries[entryIndex].sets[setIndex] = mergeSet(originalSet, newSetData)])
       /\ timer' = IF startsRest(originalSet, newSetData)
                   THEN startTimer(timer, restDuration) ELSE timer
       /\ onCompleteCalls' = IF startsRest(originalSet, newSetData) THEN 0 ELSE onCompleteCalls
       /\ UNCHANGED <<catalog, workoutHistory, currentView, clock, nextId>>

\* the weight input of a set row (App.tsx:816)
changeWeight(entryIndex, setIndex, w) ==
    /\ inWorkout
    /\ entryIndex \in 1..Len(activeWorkout.entries)
    /\ setIndex \in 1..Len(activeWorkout.entries[entryIndex].sets)
    /\ updateSet(entryIndex, setIndex, [weight |-> w])

\* the reps input of a set row (App.tsx:819)
changeReps(entryIndex, setIndex, r) ==
    /\ inWorkout
    /\ entryIndex \in 1..Len(activeWorkout.entries)
    /\ setIndex \in 1..Len(activeWorkout.entries[entryIndex].sets)
    /\ updateSet(entryIndex, setIndex, [reps |-> r])

\* the completed button of a set row (App.tsx:822)
toggleCompleted(entryIndex, setIndex) ==
    /\ inWorkout
    /\ entryIndex \in 1..Len(activeWorkout.entries)
    /\ setIndex \in 1..Len(activeWorkout.entries[entryIndex].sets)
    /\ updateSet(entryIndex, setIndex,
                 [completed |-> ~activeWorkout.entries[entryIndex].sets[setIndex].completed])

deleteSet(entryIndex, setIndex) ==
    /\ inWorkout
    /\ entryIndex \in 1..Len(activeWorkout.entries)
    /\ setIndex \in 1..Len(activeWorkout.entries[entryIndex].sets)
    /\ updateActiveWorkout(withSets(activeWorkout, entryIndex,
                                    removeAt(activeWorkout.entries[entryIndex].sets, setIndex)))
    /\ UNCHANGED <<catalog, workoutHistory, currentView, timer, onCompleteCalls, clock, nextId>>

\* an addition that does not look for an entry of the exercise
addExerciseTo_Always(workout, exerciseId) ==
    [workout EXCEPT !.entries =
        Append(@, [exerciseId |-> exerciseId, notes |-> "",
                   sets |-> << [weight |-> 0, reps |-> 0, completed |-> FALSE] >>])]

addExerciseTo(workout, exerciseId) ==
    IF indexOfExercise(workout.entries, exerciseId) # 0
    THEN workout
    ELSE [workout EXCEPT !.entries =
            Append(@, [exerciseId |-> exerciseId, notes |-> "",
                       sets |-> << [weight |-> 0, reps |-> 0, completed |-> FALSE] >>])]

\* the exercise is picked from the catalog in the selection modal (App.tsx:663)
addExerciseToWorkout(exerciseId) ==
    /\ inWorkout
    /\ IF addExerciseTo(activeWorkout, exerciseId) = activeWorkout
       THEN UNCHANGED <<activeWorkout, unfinishedWorkouts>>
       ELSE updateActiveWorkout(addExerciseTo(activeWorkout, exerciseId))
    /\ UNCHANGED <<catalog, workoutHistory, currentView, timer, onCompleteCalls, clock, nextId>>

updateNotes(entryIndex, notes) ==
    /\ inWorkout
    /\ entryIndex \in 1..Len(activeWorkout.entries)
    /\ updateActiveWorkout([activeWorkout EXCEPT !.entries[entryIndex].notes = notes])
    /\ UNCHANGED <<catalog, workoutHistory, currentView, timer, onCompleteCalls, clock, nextId>>

\* handleDrop on an entry card; draggedIndex was set by handleDragStart of the
\* same drag gesture
moveItem(array, draggedIndex, targetIndex) ==
    insertAt(removeAt(array, draggedIndex), targetIndex, array[draggedIndex])

handleDrop(draggedIndex, targetIndex) ==
    /\ inWorkout
    /\ draggedIndex \in 1..Len(activeWorkout.entries)
    /\ targetIndex \in 1..Len(activeWorkout.entries)
    /\ draggedIndex # targetIndex
    /\ updateActiveWorkout([activeWorkout EXCEPT
           !.entries = moveItem(@, draggedIndex, targetIndex)])
    /\ UNCHANGED <<catalog, workoutHistory, currentView, timer, onCompleteCalls, clock, nextId>>

\* a finish that keeps only the entries whose sets are all completed
finishedWorkoutOf_EveryCompleted(workout, now) ==
    [workout EXCEPT !.ended = TRUE,
                    !.date = now,
                    !.entries = SelectSeq(@, LAMBDA entry :
                                    \A i \in 1..Len(entry.sets) : entry.sets[i].completed)]

\* a finish that keeps every entry
finishedWorkoutOf_AllEntries(workout, now) ==
    [workout EXCEPT !.ended = TRUE, !.date = now]

\* the session finishWorkout puts in front of the history
finishedWorkoutOf(workout, now) ==
    [workout EXCEPT !.ended = TRUE,
                    !.date = now,
                    !.entries = SelectSeq(@, LAMBDA entry : someCompleted(entry.sets))]

\* a finish that records the session whatever it holds
historyAfterFinish_Always(prev, finishedWorkout) == <<finishedWorkout>> \o prev

\* if (finishedWorkout.entries.length > 0) setWorkoutHistory(prev => [finishedWorkout, ...prev])
historyAfterFinish(prev, finishedWorkout) ==
    IF Len(finishedWorkout.entries) > 0 THEN <<finishedWorkout>> \o prev ELSE prev

finishWorkout ==
    /\ inWorkout
    /\ workoutHistory' = historyAfterFinish(workoutHistory, finishedWorkoutOf(activeWorkout, clock))
    /\ activeWorkout' = NULL
    /\ unfinishedWorkouts' =
          MirrorActiveWorkout(removeWorkout(unfinishedWorkouts, activeWorkout.id),
                              activeWorkout')
    /\ currentView' = "routines"
    /\ timer' = stopTimer(timer)
    /\ clock' = clock + 1
    /\ UNCHANGED <<catalog, onCompleteCalls, nextId>>

\* the back button of the workout view (App.tsx:743)
onBack ==
    /\ inWorkout
    /\ activeWorkout' = NULL
    /\ unfinishedWorkouts' = MirrorActiveWorkout(unfinishedWorkouts, activeWorkout')
    /\ currentView' = "routines"
    /\ UNCHANGED <<catalog, workoutHistory, timer, onCompleteCalls, clock, nextId>>

\* the Resume button of an unfinished workout, shown in the routines view
resumeWorkout(i) ==
    /\ currentView = "routines"
    /\ i \in 1..Len(unfinishedWorkouts)
    /\ activeWorkout' = unfinishedWorkouts[i]
    /\ unfinishedWorkouts' = MirrorActiveWorkout(unfinishedWorkouts, activeWorkout')
    /\ currentView' = "workout"
    /\ UNCHANGED <<catalog, workoutHistory, timer, onCompleteCalls, clock, nextId>>

\* the discard button of an unfinished workout, shown in the routines view
discardWorkout(workoutId) ==
    /\ currentView = "routines"
    /\ \E i \in 1..Len(unfinishedWorkouts) : unfinishedWorkouts[i].id = workoutId
    /\ activeWorkout' = IF activeWorkout.id = workoutId THEN NULL ELSE activeWorkout
    /\ unfinishedWorkouts' =
          MirrorActiveWorkout(removeWorkout(unfinishedWorkouts, workoutId),
                              activeWorkout')
    /\ UNCHANGED <<catalog, workoutHistory, currentView, timer, onCompleteCalls, clock, nextId>>

\* ------------------------------------------------------- timer events
\* a callback that counts down to zero before it completes
intervalTick_CompletesAtZero(id) ==
    /\ id \in timer.intervals
    /\ IF timer.timeLeft <= 0
       THEN /\ timer' = completed(timer)
            /\ onCompleteCalls' = onCompleteCalls + 1
       ELSE /\ timer' = [timer EXCEPT !.timeLeft = @ - 1]
            /\ UNCHANGED onCompleteCalls
    /\ UNCHANGED <<catalog, workoutHistory, unfinishedWorkouts, currentView,
                   activeWorkout, clock, nextId>>

\* one firing of the interval callback of startTimer (useTimer.ts:26-35)
intervalTick(id) ==
    /\ id \in timer.intervals
    /\ IF timer.timeLeft <= 1
       THEN /\ timer' = completed(timer)
            /\ onCompleteCalls' = onCompleteCalls + 1
       ELSE /\ timer' = [timer EXCEPT !.timeLeft = @ - 1]
            /\ UNCHANGED onCompleteCalls
    /\ UNCHANGED <<catalog, workoutHistory, unfinishedWorkouts, currentView,
                   activeWorkout, clock, nextId>>

\* the Stop Timer button, shown in the workout view while isActive (App.tsx:850-855)
stopTimerClick ==
    /\ inWorkout
    /\ timer.isActive
    /\ timer' = stopTimer(timer)
    /\ UNCHANGED <<catalog, workoutHistory, unfinishedWorkouts, currentView,
                   activeWorkout, onCompleteCalls, clock, nextId>>

\* resetTimer(), which useTimer returns and App does not call: a call by a
\* component that uses the hook
resetTimerCalled ==
    /\ timer' = resetTimer(timer, restDuration)
    /\ UNCHANGED <<catalog, workoutHistory, unfinishedWorkouts, currentView,
                   activeWorkout, onCompleteCalls, clock, nextId>>

\* a render of the component that uses the hook with another callback; App
\* passes the same onTimerComplete on every render
supplyCallback(onComplete) ==
    /\ onComplete # timer.onComplete
    /\ timer' = rendered(timer, onComplete)
    /\ UNCHANGED <<catalog, workoutHistory, unfinishedWorkouts, currentView,
                   activeWorkout, onCompleteCalls, clock, nextId>>

\* the fallback of the rest timer fields
DefaultRest == 60

\* parseInt(e.target.value) || 60, on the number the field holds
parsedRest(value) == IF value = 0 THEN DefaultRest ELSE value

\* the rest timer field of the workout view and of the settings dialog
setRestDuration(value) ==
    /\ currentView \in {"workout", "routines"}
    /\ restDuration' = parsedRest(value)
    /\ UNCHANGED <<exercises, routines, editors, workoutHistory, unfinishedWorkouts,
                   currentView, activeWorkout, timer, onCompleteCalls, clock, nextId, refs>>

ExerciseIds == {exercises[i].id : i \in 1..Len(exercises)}

\* ------------------------------------------------ exercises and routines
\* An Exercise is [id, name], a Routine is [id, name, exerciseIds].

\* the names typed into a name field
Names == {"squat", "Squat", "bench"}

\* String.prototype.toLowerCase on the names above
toLowerCase(name) == IF name = "Squat" THEN "squat" ELSE name

\* the messages of alert()
DuplicateName == "An exercise with this name already exists."
ImportSucceeded == "Data imported successfully!"
ImportFailed == "Failed to import data. Please ensure the file is a valid backup."

\* the session state the catalog operations leave alone
workouts == <<workoutHistory, unfinishedWorkouts, activeWorkout, timer, onCompleteCalls, clock>>

\* prev.find(e => e.name.toLowerCase() === name.toLowerCase() && e.id !== id);
\* createAndSaveExercise has no id to set aside, which is an id of 0 here
existingByName(prev, name, id) ==
    \E i \in 1..Len(prev) :
        toLowerCase(prev[i].name) = toLowerCase(name) /\ prev[i].id # id

\* the updater of setExercises in saveExercise
savedExercises(prev, exerciseToSave) ==
    IF existingByName(prev, exerciseToSave.name, exerciseToSave.id) THEN prev
    ELSE IF \E i \in 1..Len(prev) : prev[i].id = exerciseToSave.id
         THEN [i \in 1..Len(prev) |->
                 IF prev[i].id = exerciseToSave.id THEN exerciseToSave ELSE prev[i]]
         ELSE Append(prev, exerciseToSave)

\* the Manage Exercises button of the settings dialog (App.tsx:1063)
openExerciseManagement ==
    /\ currentView = "routines"
    /\ currentView' = "exerciseManagement"
    /\ UNCHANGED <<exercises, routines, restDuration, editors, workouts, nextId, refs>>

\* the back button of the routine editor and of the exercise management view
backToRoutines ==
    /\ currentView \in {"routineEditor", "exerciseManagement"}
    /\ ~isEditExerciseModalOpen
    /\ currentView' = "routines"
    /\ UNCHANGED <<exercises, routines, restDuration, editors, workouts, nextId, refs>>

\* startEditExercise(exercise): i is an index into exercises, or 0 for Add New
startEditExercise(i) ==
    /\ currentView = "exerciseManagement"
    /\ ~isEditExerciseModalOpen
    /\ i \in 0..Len(exercises)
    /\ editingExercise' = IF i = 0 THEN NULL ELSE exercises[i]
    /\ isEditExerciseModalOpen' = TRUE
    /\ UNCHANGED <<exercises, routines, restDuration, editingRoutine, alerts,
                   currentView, workouts, nextId, deleteDialog,
                   viewingHistoryItem, refs>>

\* saveExercise({ id: editingExercise?.id, name, bodyPart }), the submit of the
\* edit modal; the name field is required, so the name is not empty, and the
\* body part is left as the modal shows it first: the exercise's own, or "other"
saveExercise(name) ==
    LET isNew == editingExercise = NULL
        exerciseToSave == [id |-> IF isNew THEN nextId ELSE editingExercise.id,
                           name |-> name,
                           bodyPart |-> IF isNew THEN "other" ELSE editingExercise.bodyPart]
    IN /\ isEditExerciseModalOpen
       /\ exercises' = savedExercises(exercises, exerciseToSave)
       /\ alerts' = IF existingByName(exercises, name, exerciseToSave.id)
                    THEN Append(alerts, DuplicateName) ELSE alerts
       /\ isEditExerciseModalOpen' = FALSE
       /\ editingExercise' = NULL
       /\ nextId' = IF isNew /\ ~existingByName(exercises, name, exerciseToSave.id)
                    THEN nextId + 1 ELSE nextId
       /\ UNCHANGED <<routines, restDuration, editingRoutine, currentView, workouts,
                      deleteDialog,
                   viewingHistoryItem, refs>>

\* a deletion that leaves the routines as they are
deleteExercise_CatalogOnly(id) ==
    /\ currentView = "exerciseManagement"
    /\ ~isEditExerciseModalOpen
    /\ \E i \in 1..Len(exercises) : exercises[i].id = id
    /\ exercises' = SelectSeq(exercises, LAMBDA e : e.id # id)
    /\ UNCHANGED <<routines, restDuration, editors, currentView, workouts, nextId, refs>>

\* deleteExercise(id) with the confirmation accepted
deleteExercise(id) ==
    /\ currentView = "exerciseManagement"
    /\ ~isEditExerciseModalOpen
    /\ \E i \in 1..Len(exercises) : exercises[i].id = id
    /\ exercises' = SelectSeq(exercises, LAMBDA e : e.id # id)
    /\ routines' = [i \in 1..Len(routines) |->
                      [routines[i] EXCEPT !.exerciseIds = SelectSeq(@, LAMBDA eId : eId # id)]]
    /\ UNCHANGED <<restDuration, editors, currentView, workouts, nextId, refs>>

\* startRoutineEditor(routine): r is an index into routines, or 0 for New Routine
startRoutineEditor(r) ==
    /\ currentView = "routines"
    /\ r \in 0..Len(routines)
    /\ editingRoutine' = IF r = 0 THEN [id |-> nextId, name |-> "", exerciseIds |-> <<>>]
                         ELSE routines[r]
    /\ nextId' = IF r = 0 THEN nextId + 1 ELSE nextId
    /\ currentView' = "routineEditor"
    /\ UNCHANGED <<exercises, routines, restDuration, editingExercise,
                   isEditExerciseModalOpen, alerts, workouts, deleteDialog,
                   viewingHistoryItem, refs>>

\* the routine editor renders nothing when editingRoutine is null (App.tsx:630)
inRoutineEditor == currentView = "routineEditor" /\ editingRoutine # NULL

\* onAddExercise: if (!editingRoutine.exerciseIds.includes(exerciseId)) ...
withExercise(routine, exerciseId) ==
    IF \E i \in 1..Len(routine.exerciseIds) : routine.exerciseIds[i] = exerciseId
    THEN routine
    ELSE [routine EXCEPT !.exerciseIds = Append(@, exerciseId)]

\* the exercise is picked from the catalog in the selection modal
onAddExercise(exerciseId) ==
    /\ inRoutineEditor
    /\ editingRoutine' = withExercise(editingRoutine, exerciseId)
    /\ UNCHANGED <<exercises, routines, restDuration, editingExercise,
                   isEditExerciseModalOpen, alerts, currentView, workouts, nextId,
                   deleteDialog,
                   viewingHistoryItem, refs>>

onRemoveExercise(exerciseId) ==
    /\ inRoutineEditor
    /\ \E i \in 1..Len(editingRoutine.exerciseIds) : editingRoutine.exerciseIds[i] = exerciseId
    /\ editingRoutine' = [editingRoutine EXCEPT
                             !.exerciseIds = SelectSeq(@, LAMBDA id : id # exerciseId)]
    /\ UNCHANGED <<exercises, routines, restDuration, editingExercise,
                   isEditExerciseModalOpen, alerts, currentView, workouts, nextId,
                   deleteDialog,
                   viewingHistoryItem, refs>>

\* handleDrop on an exercise row of the routine editor (App.tsx:664)
handleDropExerciseId(draggedIndex, targetIndex) ==
    /\ inRoutineEditor
    /\ draggedIndex \in 1..Len(editingRoutine.exerciseIds)
    /\ targetIndex \in 1..Len(editingRoutine.exerciseIds)
    /\ draggedIndex # targetIndex
    /\ editingRoutine' = [editingRoutine EXCEPT
                             !.exerciseIds = moveItem(@, draggedIndex, targetIndex)]
    /\ UNCHANGED <<exercises, routines, restDuration, editingExercise,
                   isEditExerciseModalOpen, alerts, currentView, workouts, nextId,
                   deleteDialog,
                   viewingHistoryItem, refs>>

\* saveRoutine(editingRoutine), the Save button of the routine editor
saveRoutine ==
    /\ inRoutineEditor
    /\ routines' = IF \E i \in 1..Len(routines) : routines[i].id = editingRoutine.id
                   THEN [i \in 1..Len(routines) |->
                           IF routines[i].id = editingRoutine.id THEN editingRoutine
                           ELSE routines[i]]
                   ELSE Append(routines, editingRoutine)
    /\ currentView' = "routines"
    /\ editingRoutine' = NULL
    /\ UNCHANGED <<exercises, restDuration, editingExercise, isEditExerciseModalOpen,
                   alerts, workouts, nextId, deleteDialog,
                   viewingHistoryItem, refs>>

deleteRoutine(id) ==
    /\ currentView = "routines"
    /\ \E i \in 1..Len(routines) : routines[i].id = id
    /\ routines' = SelectSeq(routines, LAMBDA r : r.id # id)
    /\ UNCHANGED <<exercises, restDuration, editors, currentView, workouts, nextId, refs>>

\* createAndSaveExercise(name) as handleCreateExercise calls it (App.tsx:519-527)
\* from the selection modal of the routine editor, where onSelectExercise is
\* onAddExercise.  success is written inside the updater of setExercises, and
\* useLocalStorage decides when the updater runs: selected says whether it ran
\* before createAndSaveExercise returned.
createExerciseForRoutine(name, selected) ==
    /\ inRoutineEditor
    /\ IF existingByName(exercises, name, 0)
       THEN /\ alerts' = Append(alerts, DuplicateName)
            /\ UNCHANGED <<exercises, editingRoutine, nextId>>
       ELSE /\ exercises' = Append(exercises, [id |-> nextId, name |-> name, bodyPart |-> "other"])
            /\ editingRoutine' = IF selected THEN withExercise(editingRoutine, nextId)
                                 ELSE editingRoutine
            /\ nextId' = nextId + 1
            /\ UNCHANGED alerts
    /\ UNCHANGED <<routines, restDuration, editingExercise, isEditExerciseModalOpen,
                   currentView, workouts, deleteDialog,
                   viewingHistoryItem, refs>>

\* the same from the selection modal of the workout view, where
\* onSelectExercise is addExerciseToWorkout
createExerciseForWorkout(name, selected) ==
    /\ inWorkout
    /\ IF existingByName(exercises, name, 0)
       THEN /\ alerts' = Append(alerts, DuplicateName)
            /\ UNCHANGED <<exercises, activeWorkout, unfinishedWorkouts, nextId>>
       ELSE /\ exercises' = Append(exercises, [id |-> nextId, name |-> name, bodyPart |-> "other"])
            /\ IF selected
               THEN updateActiveWorkout(addExerciseTo(activeWorkout, nextId))
               ELSE UNCHANGED <<activeWorkout, unfinishedWorkouts>>
            /\ nextId' = nextId + 1
            /\ UNCHANGED alerts
    /\ UNCHANGED <<routines, restDuration, editingRoutine, editingExercise,
                   isEditExerciseModalOpen, currentView, workoutHistory, timer,
                   onCompleteCalls, clock, deleteDialog,
                   viewingHistoryItem, refs>>

\* ---------------------------------------------------------------- import
\* A document is what JSON.parse makes of the file: parses says whether it
\* parses to an object at all, and each field is an array of items, missing, or
\* a value of another type.
array(items) == [kind |-> "array", items |-> items]
missing == [kind |-> "undefined"]
text == [kind |-> "string"]
number(n) == [kind |-> "number", value |-> n]

\* Array.isArray
isArray(v) == v.kind = "array"

\* App.tsx:16
BODY_PARTS == {"chest", "back", "legs", "arms", "shoulders", "belly", "other"}

\* a migration that files every exercise under "other"
migratedExercises_AllOther(items) ==
    [i \in 1..Len(items) |->
        [k \in DOMAIN items[i] \cup {"bodyPart"} |->
            IF k = "bodyPart" THEN "other" ELSE items[i][k]]]

\* data.exercises.map(ex => ({ ...ex, bodyPart: valid ? ex.bodyPart : 'other' }))
migratedExercises(items) ==
    [i \in 1..Len(items) |->
        IF "bodyPart" \in DOMAIN items[i] /\ items[i].bodyPart \in BODY_PARTS
        THEN items[i]
        ELSE [k \in DOMAIN items[i] \cup {"bodyPart"} |->
                 IF k = "bodyPart" THEN "other" ELSE items[i][k]]]

\* reader.onload of importData, chosen in the settings dialog of the routines view
importData(doc) ==
    /\ currentView = "routines"
    /\ IF doc.parses /\ isArray(doc.exercises) /\ isArray(doc.routines)
          /\ isArray(doc.workoutHistory)
       THEN /\ exercises' = migratedExercises(doc.exercises.items)
            /\ routines' = doc.routines.items
            /\ workoutHistory' = doc.workoutHistory.items
            /\ restDuration' = IF doc.restDuration.kind = "number"
                               THEN doc.restDuration.value ELSE restDuration
            /\ alerts' = Append(alerts, ImportSucceeded)
       ELSE /\ alerts' = Append(alerts, ImportFailed)
            /\ UNCHANGED <<exercises, routines, workoutHistory, restDuration>>
    /\ UNCHANGED <<editingRoutine, editingExercise, isEditExerciseModalOpen, currentView,
                   unfinishedWorkouts, activeWorkout, timer, onCompleteCalls, clock, nextId,
                   deleteDialog,
                   viewingHistoryItem, refs>>

\* ------------------------------------------------------------- history
\* the View Workout History button of the routines view (App.tsx:618)
openHistory ==
    /\ currentView = "routines"
    /\ currentView' = "history"
    /\ UNCHANGED <<exercises, routines, restDuration, editors, workouts, nextId, refs>>

\* the back button of the history view (App.tsx:872)
historyBack ==
    /\ currentView = "history"
    /\ currentView' = "routines"
    /\ UNCHANGED <<exercises, routines, restDuration, editors, workouts, nextId, refs>>

\* a click on the i-th session of the history view
viewHistoryDetail(i) ==
    /\ currentView = "history"
    /\ i \in 1..Len(workoutHistory)
    /\ viewingHistoryItem' = workoutHistory[i]
    /\ currentView' = "historyDetail"
    /\ UNCHANGED <<exercises, routines, restDuration, editingRoutine, editingExercise,
                   isEditExerciseModalOpen, alerts, deleteDialog, workouts, nextId, refs>>

\* the back button of the history detail view (App.tsx:905)
historyDetailBack ==
    /\ currentView = "historyDetail"
    /\ currentView' = "history"
    /\ UNCHANGED <<exercises, routines, restDuration, editors, workouts, nextId, refs>>

\* the delete button of the history detail view (App.tsx:906), which shows
\* nothing without a viewingHistoryItem
deleteHistoryItem(id) ==
    /\ currentView = "historyDetail"
    /\ viewingHistoryItem # NULL
    /\ id = viewingHistoryItem.id
    /\ workoutHistory' = SelectSeq(workoutHistory, LAMBDA s : s.id # id)
    /\ IF viewingHistoryItem.id = id
       THEN currentView' = "history" /\ viewingHistoryItem' = NULL
       ELSE UNCHANGED <<currentView, viewingHistoryItem>>
    /\ UNCHANGED <<exercises, routines, restDuration, editingRoutine, editingExercise,
                   isEditExerciseModalOpen, alerts, deleteDialog, unfinishedWorkouts,
                   activeWorkout, timer, onCompleteCalls, clock, nextId, refs>>

\* -------------------------------------------------------------- export
\* JSON values: the text JSON.stringify writes, as the tree it denotes
string(s) == [kind |-> "string", value |-> s]
boolean(b) == [kind |-> "boolean", value |-> b]
null == [kind |-> "null"]
object(fields) == [kind |-> "object", fields |-> fields]

\* JSON.stringify of a set, an entry, a session, a routine and an exercise: an
\* object with the keys the value has; ids are strings, a blank workout's
\* routineId is null
stringifySet(set) ==
    object([weight |-> number(set.weight), reps |-> number(set.reps),
            completed |-> boolean(set.completed)])

stringifyEntry(entry) ==
    object([exerciseId |-> string(entry.exerciseId), notes |-> string(entry.notes),
            sets |-> array([i \in 1..Len(entry.sets) |-> stringifySet(entry.sets[i])])])

stringifySession(session) ==
    object([id |-> string(session.id), date |-> number(session.date),
            routineId |-> IF session.routineId = 0 THEN null ELSE string(session.routineId),
            entries |-> array([i \in 1..Len(session.entries) |->
                                  stringifyEntry(session.entries[i])]),
            ended |-> boolean(session.ended)])

stringifyRoutine(routine) ==
    object([id |-> string(routine.id), name |-> string(routine.name),
            exerciseIds |-> array([i \in 1..Len(routine.exerciseIds) |->
                                      string(routine.exerciseIds[i])])])

stringifyExercise(exercise) ==
    object([k \in DOMAIN exercise |-> string(exercise[k])])

\* the document exportData downloads (App.tsx:440-449)
exportData ==
    object([exercises |-> array([i \in 1..Len(exercises) |-> stringifyExercise(exercises[i])]),
            routines |-> array([i \in 1..Len(routines) |-> stringifyRoutine(routines[i])]),
            workoutHistory |-> array([i \in 1..Len(workoutHistory) |->
                                         stringifySession(workoutHistory[i])]),
            restDuration |-> number(restDuration)])

\* the value JSON.parse makes of a JSON value; null is the routineId 0
RECURSIVE parsed(_)
parsed(json) ==
    CASE json.kind = "array" -> [i \in 1..Len(json.items) |-> parsed(json.items[i])]
      [] json.kind = "object" -> [k \in DOMAIN json.fields |-> parsed(json.fields[k])]
      [] json.kind = "null" -> 0
      [] OTHER -> json.value

\* data.<name> of the parsed document, as importData tests it
field(json, name) ==
    IF json.kind # "object" \/ name \notin DOMAIN json.fields THEN missing
    ELSE CASE json.fields[name].kind = "array" -> array(parsed(json.fields[name]))
           [] json.fields[name].kind = "number" -> json.fields[name]
           [] OTHER -> text

\* JSON.parse(text) of a file that holds a JSON value
JSONparse(json) ==
    [parses |-> TRUE,
     exercises |-> field(json, "exercises"),
     routines |-> field(json, "routines"),
     workoutHistory |-> field(json, "workoutHistory"),
     restDuration |-> field(json, "restDuration")]

\* ------------------------------------------------------ specifications
\* the bounds of the model, applied where an input is chosen
mayStart == nextId <= MaxSessions
mayAddSet(e) == inWorkout /\ e \in 1..Len(activeWorkout.entries)
                /\ Len(activeWorkout.entries[e].sets) < MaxSets
EntryIdx == 1..Len(exercises)
SetIdx == 1..3

\* starting, completing, finishing, leaving, resuming and discarding workouts
Sessions ==
    \/ \E r \in 0..Len(routines) : mayStart /\ startWorkout(r)
    \/ \E e \in EntryIdx, s \in SetIdx : toggleCompleted(e, s)
    \/ finishWorkout
    \/ onBack
    \/ \E i \in 1..Len(unfinishedWorkouts) : resumeWorkout(i)
    \/ \E i \in 1..Len(unfinishedWorkouts) : discardWorkout(unfinishedWorkouts[i].id)
    \/ \E id \in timer.intervals : intervalTick(id)
    \/ stopTimerClick

\* adding and deleting sets and entries
Structure ==
    \/ \E e \in EntryIdx : mayAddSet(e) /\ addSet(e)
    \/ \E e \in EntryIdx, s \in SetIdx : deleteSet(e, s)
    \/ \E x \in ExerciseIds : addExerciseToWorkout(x)

\* Spec: the session lifecycle from a fresh installation, with a catalog of two
\* exercises; sets are added, completed and deleted and entries reordered.
Next ==
    \/ Sessions
    \/ Structure
    \/ \E d \in EntryIdx, t \in EntryIdx : handleDrop(d, t)

Spec == Init /\ [][Next]_vars

\* SpecEdit: the same lifecycle with a catalog of one exercise, where weights,
\* reps and notes are typed as well.
InitEdit ==
    /\ exercises = << [id |-> 1, name |-> "squat", bodyPart |-> "legs"] >>
    /\ routines = << [id |-> 1, name |-> "legs", exerciseIds |-> <<1>>] >>
    /\ workoutHistory = <<>>
    /\ restDuration \in 1..MaxRest
    /\ unfinishedWorkouts = <<>>
    /\ currentView = "routines"
    /\ activeWorkout = NULL
    /\ timer = [timeLeft |-> restDuration, isActive |-> FALSE,
                timerRef |-> NoInterval, intervals |-> {},
                onComplete |-> "onTimerComplete", onCompleteRef |-> "onTimerComplete",
                invoked |-> "none"]
    /\ onCompleteCalls = 0
    /\ clock = 1
    /\ nextId = 1
    /\ InitEditors
    /\ InitRefs

NextEdit ==
    \/ Sessions
    \/ Structure
    \/ \E e \in EntryIdx, s \in SetIdx, w \in 1..MaxWeight : changeWeight(e, s, w)
    \/ \E e \in EntryIdx, s \in SetIdx, r \in 1..MaxReps : changeReps(e, s, r)
    \/ \E e \in EntryIdx, n \in NoteTexts : updateNotes(e, n)

SpecEdit == InitEdit /\ [][NextEdit]_vars

\* SpecData: one more workout on top of an existing history.  The history holds
\* up to two finished sessions as finishWorkout leaves them (ended, every entry
\* with a completed set, newest first).
SeedSet(w, r, c) == [weight |-> w, reps |-> r, completed |-> c]
SeedEntry(x, sets) == [exerciseId |-> x, notes |-> "", sets |-> sets]

SeedSetLists ==
    { << SeedSet(2, 1, TRUE) >>,
      << SeedSet(1, 2, TRUE), SeedSet(2, 2, TRUE) >>,
      << SeedSet(3, 1, FALSE), SeedSet(2, 2, TRUE), SeedSet(2, 1, TRUE) >> }

SeedEntryLists ==
    LET bench == SeedEntry(2, << SeedSet(1, 1, TRUE) >>)
    IN { <<bench>> }
       \cup { << SeedEntry(1, x) >> : x \in SeedSetLists }
       \cup { << SeedEntry(1, x), bench >> : x \in SeedSetLists }
       \cup { << bench, SeedEntry(1, x) >> : x \in SeedSetLists }

SeedSessions(id, date) ==
    { [id |-> id, date |-> date, routineId |-> rid, entries |-> es, ended |-> TRUE] :
        rid \in 1..2, es \in SeedEntryLists }

SeedHistories ==
    { <<>> }
    \cup { <<a>> : a \in SeedSessions(101, 1) }
    \cup { <<b, a>> : b \in SeedSessions(102, 2), a \in SeedSessions(101, 1) }

InitData ==
    /\ exercises = << [id |-> 1, name |-> "squat", bodyPart |-> "legs"],
                    [id |-> 2, name |-> "bench", bodyPart |-> "chest"] >>
    /\ routines = << [id |-> 1, name |-> "full body", exerciseIds |-> <<1, 2>>],
                     [id |-> 2, name |-> "push", exerciseIds |-> <<2>>] >>
    /\ workoutHistory \in SeedHistories
    /\ restDuration \in 1..MaxRest
    /\ unfinishedWorkouts = <<>>
    /\ currentView = "routines"
    /\ activeWorkout = NULL
    /\ timer = [timeLeft |-> restDuration, isActive |-> FALSE,
                timerRef |-> NoInterval, intervals |-> {},
                onComplete |-> "onTimerComplete", onCompleteRef |-> "onTimerComplete",
                invoked |-> "none"]
    /\ onCompleteCalls = 0
    /\ clock = 3
    /\ nextId = MaxSessions
    /\ InitEditors
    /\ InitRefs

NextData == Sessions

SpecData == InitData /\ [][NextData]_vars

\* SpecFrame: one workout of the routine, edited in every way the workout view
\* offers.  The routine holds squat alone and the history one session of it, so
\* the workout starts with two squat sets; bench is added in the workout.
InitFrame ==
    /\ exercises = << [id |-> 1, name |-> "squat", bodyPart |-> "legs"],
                    [id |-> 2, name |-> "bench", bodyPart |-> "chest"] >>
    /\ routines = << [id |-> 1, name |-> "legs", exerciseIds |-> <<1>>] >>
    /\ workoutHistory =
          << [id |-> 101, date |-> 1, routineId |-> 1, ended |-> TRUE,
              entries |-> << SeedEntry(1, << SeedSet(1, 1, TRUE), SeedSet(1, 1, TRUE) >>) >>] >>
    /\ restDuration \in 1..MaxRest
    /\ unfinishedWorkouts = <<>>
    /\ currentView = "routines"
    /\ activeWorkout = NULL
    /\ timer = [timeLeft |-> restDuration, isActive |-> FALSE,
                timerRef |-> NoInterval, intervals |-> {},
                onComplete |-> "onTimerComplete", onCompleteRef |-> "onTimerComplete",
                invoked |-> "none"]
    /\ onCompleteCalls = 0
    /\ clock = 2
    /\ nextId = MaxSessions
    /\ InitEditors
    /\ InitRefs

\* the sets of a session, over all its entries
RECURSIVE countSets(_)
countSets(entries) ==
    IF entries = <<>> THEN 0 ELSE Len(Head(entries).sets) + countSets(Tail(entries))

mayAddFrameSet(e) ==
    /\ inWorkout
    /\ e \in 1..Len(activeWorkout.entries)
    /\ Len(activeWorkout.entries[e].sets) < MaxFrameSets
    /\ countSets(activeWorkout.entries) <= MaxFrameSets

NextFrame ==
    \/ \E r \in 1..Len(routines) : mayStart /\ startWorkout(r)
    \/ \E e \in EntryIdx : mayAddFrameSet(e) /\ addSet(e)
    \/ \E e \in EntryIdx, s \in SetIdx : toggleCompleted(e, s)
    \/ \E e \in EntryIdx, s \in SetIdx, w \in 1..MaxWeight : changeWeight(e, s, w)
    \/ \E e \in EntryIdx, s \in SetIdx, r \in 1..MaxReps : changeReps(e, s, r)
    \/ \E e \in EntryIdx, s \in SetIdx : deleteSet(e, s)
    \/ \E e \in EntryIdx, n \in NoteTexts : updateNotes(e, n)
    \/ \E x \in ExerciseIds : addExerciseToWorkout(x)
    \/ \E d \in EntryIdx, t \in EntryIdx : handleDrop(d, t)

SpecFrame == InitFrame /\ [][NextFrame]_vars

\* SpecCatalog: the exercise catalog and the routines are edited, documents
\* are imported, and workouts are started from the routines that result.
ImportDocs ==
    LET squat == [id |-> 1, name |-> "squat", bodyPart |-> "legs"]
        legs == [id |-> 1, name |-> "legs", exerciseIds |-> <<1>>]
        done == [id |-> 101, date |-> 1, routineId |-> 1, ended |-> TRUE,
                 entries |-> << SeedEntry(1, << SeedSet(1, 1, TRUE) >>) >>]
    IN { \* a backup as exportData writes it
         [parses |-> TRUE, exercises |-> array(<<squat>>), routines |-> array(<<legs>>),
          workoutHistory |-> array(<<done>>), restDuration |-> number(1)],
         \* documents of the right shape that were not written by exportData
         [parses |-> TRUE,
          exercises |-> array(<< squat, [id |-> 2, name |-> "Squat"] >>),
          routines |-> array(<<>>), workoutHistory |-> array(<<>>),
          restDuration |-> missing],
         [parses |-> TRUE, exercises |-> array(<<squat>>),
          routines |-> array(<< [legs EXCEPT !.exerciseIds = <<1, 1>>] >>),
          workoutHistory |-> array(<<>>), restDuration |-> text],
         [parses |-> TRUE, exercises |-> array(<<squat>>), routines |-> array(<<>>),
          workoutHistory |-> array(<< [done EXCEPT !.entries = @ \o @] >>),
          restDuration |-> missing],
         \* documents importData rejects
         [parses |-> TRUE, exercises |-> missing, routines |-> array(<<legs>>),
          workoutHistory |-> array(<<done>>), restDuration |-> number(1)],
         [parses |-> TRUE, exercises |-> array(<<squat>>), routines |-> text,
          workoutHistory |-> array(<<done>>), restDuration |-> number(1)],
         [parses |-> TRUE, exercises |-> array(<<squat>>), routines |-> array(<<legs>>),
          workoutHistory |-> missing, restDuration |-> missing],
         [parses |-> FALSE, exercises |-> missing, routines |-> missing,
          workoutHistory |-> missing, restDuration |-> missing] }

InitCatalog ==
    /\ exercises = << [id |-> 1, name |-> "squat", bodyPart |-> "legs"],
                    [id |-> 2, name |-> "bench", bodyPart |-> "chest"] >>
    /\ routines = << [id |-> 1, name |-> "full body", exerciseIds |-> <<1, 2>>] >>
    /\ workoutHistory = <<>>
    /\ restDuration \in 1..MaxRest
    /\ unfinishedWorkouts = <<>>
    /\ currentView = "routines"
    /\ activeWorkout = NULL
    /\ timer = [timeLeft |-> restDuration, isActive |-> FALSE,
                timerRef |-> NoInterval, intervals |-> {},
                onComplete |-> "onTimerComplete", onCompleteRef |-> "onTimerComplete",
                invoked |-> "none"]
    /\ onCompleteCalls = 0
    /\ clock = 1
    /\ nextId = 3
    /\ InitEditors
    /\ InitRefs

mayCreate == nextId <= MaxIds
mayAlert == Len(alerts) < MaxAlerts

NextCatalog ==
    \/ openExerciseManagement
    \/ backToRoutines
    \/ \E i \in 0..Len(exercises) : startEditExercise(i)
    \/ \E name \in Names : mayCreate /\ mayAlert /\ saveExercise(name)
    \/ \E id \in ExerciseIds : deleteExercise(id)
    \/ \E r \in 0..Len(routines) : mayCreate /\ startRoutineEditor(r)
    \/ \E x \in ExerciseIds : onAddExercise(x)
    \/ \E x \in ExerciseIds : onRemoveExercise(x)
    \/ \E d \in EntryIdx, t \in EntryIdx : handleDropExerciseId(d, t)
    \/ saveRoutine
    \/ \E r \in 1..Len(routines) : deleteRoutine(routines[r].id)
    \/ \E name \in Names, selected \in BOOLEAN :
          mayCreate /\ mayAlert /\ createExerciseForRoutine(name, selected)
    \/ \E name \in Names, selected \in BOOLEAN :
          mayCreate /\ mayAlert /\ createExerciseForWorkout(name, selected)
    \/ \E doc \in ImportDocs : mayAlert /\ importData(doc)
    \/ \E r \in 0..Len(routines) : mayCreate /\ startWorkout(r)
    \/ \E x \in ExerciseIds : addExerciseToWorkout(x)

SpecCatalog == InitCatalog /\ [][NextCatalog]_vars

\* SpecTimer: the rest timer under the workouts of SpecEdit, with the rest
\* duration set to other values between the countdowns and during them.
NextTimer ==
    \/ Sessions
    \/ \E value \in 1..MaxDuration : setRestDuration(value)
    \/ resetTimerCalled
    \/ \E onComplete \in Callbacks : supplyCallback(onComplete)

SpecTimer == InitEdit /\ [][NextTimer]_vars

\* SpecDelete: exercises are deleted between workouts of a routine that lists
\* them, with sessions unfinished and in the history.
NextDelete ==
    \/ Sessions
    \/ openExerciseManagement
    \/ backToRoutines
    \/ \E id \in ExerciseIds : deleteExercise(id)

SpecDelete == Init /\ [][NextDelete]_vars

\* SpecBackup: a history of up to two sessions is browsed and pruned, and a
\* backup is imported once: the one the program has just exported, or a file
\* from elsewhere.
InitBackup ==
    /\ exercises = << [id |-> 1, name |-> "squat", bodyPart |-> "legs"],
                      [id |-> 2, name |-> "bench", bodyPart |-> "other"] >>
    /\ routines = << [id |-> 1, name |-> "full body", exerciseIds |-> <<1, 2>>] >>
    /\ workoutHistory \in SeedHistories
    /\ restDuration \in 1..MaxDuration
    /\ unfinishedWorkouts = <<>>
    /\ currentView = "routines"
    /\ activeWorkout = NULL
    /\ timer = [timeLeft |-> restDuration, isActive |-> FALSE,
                timerRef |-> NoInterval, intervals |-> {},
                onComplete |-> "onTimerComplete", onCompleteRef |-> "onTimerComplete",
                invoked |-> "none"]
    /\ onCompleteCalls = 0
    /\ clock = 3
    /\ nextId = 1
    /\ InitEditors
    /\ InitRefs

NextBackup ==
    \/ openHistory
    \/ historyBack
    \/ \E i \in 1..Len(workoutHistory) : viewHistoryDetail(i)
    \/ historyDetailBack
    \/ \E i \in 1..Len(workoutHistory) : deleteHistoryItem(workoutHistory[i].id)
    \/ mayAlert /\ importData(JSONparse(exportData))
    \/ \E doc \in ImportDocs : mayAlert /\ importData(doc)

SpecBackup == InitBackup /\ [][NextBackup]_vars

\* ------------------------------------------------- the value adjuster
\* what a number field holds: a number, or nothing that parses to one
empty == [kind |-> "empty"]
TypedValues == {empty} \cup {number(n) : n \in (0 - 1)..MaxWeight}

\* parseFloat(e.target.value) || 0 and parseInt(e.target.value) || 0
orZero(typed) == IF typed.kind = "empty" \/ typed.value = 0 THEN 0 ELSE typed.value

\* Math.max(0, value)
atLeastZero(value) == IF value < 0 THEN 0 ELSE value

\* the - and + buttons of the banner shown for activeInput, the field that has
\* the focus; weights are counted in steps of the banner's increment
handleAdjustValue(activeInput, adjustment) ==
    /\ inWorkout
    /\ activeInput.entryIndex \in 1..Len(activeWorkout.entries)
    /\ activeInput.setIndex \in 1..Len(activeWorkout.entries[activeInput.entryIndex].sets)
    /\ LET currentSet == activeWorkout.entries[activeInput.entryIndex].sets[activeInput.setIndex]
       IN IF activeInput.type = "weight"
          THEN updateSet(activeInput.entryIndex, activeInput.setIndex,
                         [weight |-> atLeastZero(currentSet.weight + adjustment)])
          ELSE updateSet(activeInput.entryIndex, activeInput.setIndex,
                         [reps |-> atLeastZero(currentSet.reps + adjustment)])

\* the fields the banner can be shown for
ActiveInputs ==
    {[entryIndex |-> e, setIndex |-> s, type |-> t] :
        e \in EntryIdx, s \in SetIdx, t \in {"weight", "reps"}}

\* the banner does not count beyond the bounds
mayAdjust(activeInput, adjustment) ==
    /\ inWorkout
    /\ activeInput.entryIndex \in 1..Len(activeWorkout.entries)
    /\ activeInput.setIndex \in 1..Len(activeWorkout.entries[activeInput.entryIndex].sets)
    /\ LET currentSet == activeWorkout.entries[activeInput.entryIndex].sets[activeInput.setIndex]
       IN IF activeInput.type = "weight" THEN currentSet.weight + adjustment <= MaxWeight
          ELSE currentSet.reps + adjustment <= MaxReps

\* SpecInput: the workouts of SpecEdit where the weight and reps fields take
\* whatever a number field can hold, and the banner adjusts them.
NextInput ==
    \/ Sessions
    \/ Structure
    \/ \E e \in EntryIdx, s \in SetIdx, typed \in TypedValues :
          changeWeight(e, s, orZero(typed))
    \/ \E e \in EntryIdx, s \in SetIdx, typed \in TypedValues :
          typed.kind = "number" /\ typed.value <= MaxReps /\ changeReps(e, s, orZero(typed))
    \/ \E activeInput \in ActiveInputs, adjustment \in {0 - 1, 1} :
          mayAdjust(activeInput, adjustment) /\ handleAdjustValue(activeInput, adjustment)

SpecInput == InitEdit /\ [][NextInput]_vars

\* SpecHistory: the workouts of Spec, with the history browsed and sessions
\* deleted from it.
NextHistory ==
    \/ Next
    \/ openHistory
    \/ historyBack
    \/ \E i \in 1..Len(workoutHistory) : viewHistoryDetail(i)
    \/ historyDetailBack
    \/ \E i \in 1..Len(workoutHistory) : deleteHistoryItem(workoutHistory[i].id)

SpecHistory == Init /\ [][NextHistory]_vars

\* --------------------------------------- the Delete Set confirmation
\* lastTimeSet of handleDeleteSetClick: the latest ended session with an entry
\* of the exercise has a completed set at the index (setIndex counts from 1)
lastTimeSet(entryIndex, setIndex) ==
    LET exerciseId == activeWorkout.entries[entryIndex].exerciseId
        ended == sortByDateDesc(SelectSeq(workoutHistory, LAMBDA s : s.ended))
        found == SelectSeq(ended, LAMBDA s : indexOfExercise(s.entries, exerciseId) # 0)
        lastPerformance == found[1].entries[indexOfExercise(found[1].entries, exerciseId)]
    IN found # <<>> /\ setIndex <= Len(completedSets(lastPerformance.sets))

\* the delete button of a set row (App.tsx:827)
handleDeleteSetClick(entryIndex, setIndex) ==
    /\ inWorkout
    /\ entryIndex \in 1..Len(activeWorkout.entries)
    /\ setIndex \in 1..Len(activeWorkout.entries[entryIndex].sets)
    /\ IF lastTimeSet(entryIndex, setIndex)
       THEN /\ setToDelete' = [entryIndex |-> entryIndex, setIndex |-> setIndex]
            /\ isDeleteSetConfirmModalOpen' = TRUE
            /\ UNCHANGED <<activeWorkout, unfinishedWorkouts>>
       ELSE /\ updateActiveWorkout(withSets(activeWorkout, entryIndex,
                    removeAt(activeWorkout.entries[entryIndex].sets, setIndex)))
            /\ UNCHANGED deleteDialog
    /\ UNCHANGED <<exercises, routines, restDuration, editingRoutine, editingExercise,
                   isEditExerciseModalOpen, alerts, workoutHistory, currentView, timer,
                   onCompleteCalls, clock, nextId,
                   viewingHistoryItem, refs>>

\* deleteSet reads activeWorkout!.entries[entryIndex].sets: without an active
\* session, or without the entry, it throws before it sets anything
deleteSetThrows(entryIndex) ==
    activeWorkout = NULL \/ entryIndex \notin 1..Len(activeWorkout.entries)

\* the Delete button of the dialog (App.tsx:1086-1092); splice leaves the sets
\* alone when the index is past their end
confirmDeleteSet ==
    /\ isDeleteSetConfirmModalOpen
    /\ IF setToDelete = NULL
       THEN UNCHANGED <<activeWorkout, unfinishedWorkouts>>
       ELSE /\ ~deleteSetThrows(setToDelete.entryIndex)
            /\ LET sets == activeWorkout.entries[setToDelete.entryIndex].sets
               IN updateActiveWorkout(withSets(activeWorkout, setToDelete.entryIndex,
                      IF setToDelete.setIndex \in 1..Len(sets)
                      THEN removeAt(sets, setToDelete.setIndex) ELSE sets))
    /\ isDeleteSetConfirmModalOpen' = FALSE
    /\ setToDelete' = NULL
    /\ UNCHANGED <<exercises, routines, restDuration, editingRoutine, editingExercise,
                   isEditExerciseModalOpen, alerts, workoutHistory, currentView, timer,
                   onCompleteCalls, clock, nextId,
                   viewingHistoryItem, refs>>

\* the Cancel button and onClose of the dialog: setToDelete stays as it is
cancelDeleteSet ==
    /\ isDeleteSetConfirmModalOpen
    /\ isDeleteSetConfirmModalOpen' = FALSE
    /\ UNCHANGED <<exercises, routines, restDuration, editingRoutine, editingExercise,
                   isEditExerciseModalOpen, alerts, setToDelete, workouts, currentView,
                   nextId,
                   viewingHistoryItem, refs>>

\* an open dialog covers the view behind it
ModalIsOpen_Never == FALSE

\* the isOpen of the Delete Set dialog: while it is open, the controls of the
\* view behind it cannot be used
ModalIsOpen == isDeleteSetConfirmModalOpen

\* SpecConfirm: the workouts of SpecEdit, where a set is deleted through the row's
\* delete button and, when the last session has a set at its place, through the
\* dialog; the countdown goes on while the dialog is open.
NextConfirm ==
    \/ ~ModalIsOpen /\ Sessions
    \/ ~ModalIsOpen /\ \E e \in EntryIdx : mayAddSet(e) /\ addSet(e)
    \/ ~ModalIsOpen /\ \E e \in EntryIdx, s \in SetIdx : handleDeleteSetClick(e, s)
    \/ confirmDeleteSet
    \/ cancelDeleteSet
    \/ ModalIsOpen /\ \E id \in timer.intervals : intervalTick(id)

SpecConfirm == InitEdit /\ [][NextConfirm]_vars

\* ------------------------------------- session objects and the effect
\* Below, a handler's state update and the mirroring effect that follows the
\* render are separate steps, and every session object has an identity.
usedRefs == {refs.active, refs.mirrored} \cup {refs.stored[i] : i \in 1..Len(refs.stored)}

\* a new object: an identity that no reference holds
newRef == CHOOSE n \in 1..(Cardinality(usedRefs) + 1) : n \notin usedRefs

\* a copy that is the object itself
deepCopy_Same(ref) == ref

\* JSON.parse(JSON.stringify(object)): a new object, and new objects at every
\* level below it
deepCopy(ref) == newRef

\* the effect of App.tsx:86-102 has activeWorkout as its dependency: it is due
\* when activeWorkout is another object than at its last run
effectPending == refs.active # refs.mirrored

\* setActiveWorkout(workout); with null the effect runs and does nothing
setActiveWorkout(workout, ref) ==
    /\ activeWorkout' = workout
    /\ refs' = [refs EXCEPT !.active = ref, !.mirrored = IF ref = 0 THEN 0 ELSE @]

\* the identities of prev.filter(w => w.id !== workoutId)
storedWithout(workoutId) ==
    LET kept == SelectSeq([i \in 1..Len(unfinishedWorkouts) |-> i],
                          LAMBDA i : unfinishedWorkouts[i].id # workoutId)
    IN [k \in 1..Len(kept) |-> refs.stored[kept[k]]]

\* the mirroring effect, run after the render that follows a state update
mirrorEffect ==
    /\ effectPending
    /\ activeWorkout # NULL
    /\ unfinishedWorkouts' = MirrorActiveWorkout(unfinishedWorkouts, activeWorkout)
    /\ LET existingIndex == indexOfWorkout(unfinishedWorkouts, activeWorkout.id)
           newActiveWorkout == deepCopy(refs.active)
       IN refs' = [refs EXCEPT !.mirrored = refs.active,
                               !.stored = IF existingIndex # 0
                                          THEN [@ EXCEPT ![existingIndex] = newActiveWorkout]
                                          ELSE Append(@, newActiveWorkout)]
    /\ UNCHANGED <<exercises, routines, restDuration, editors, workoutHistory,
                   activeWorkout, currentView, timer, onCompleteCalls, clock, nextId>>

\* the state updates of startWorkout
startWorkoutUpdate(r) ==
    /\ currentView = "routines"
    /\ setActiveWorkout(newWorkoutFor(r), newRef)
    /\ currentView' = "workout"
    /\ timer' = stopTimer(timer)
    /\ nextId' = nextId + 1
    /\ clock' = clock + 1
    /\ UNCHANGED <<exercises, routines, restDuration, editors, workoutHistory,
                   unfinishedWorkouts, onCompleteCalls>>

\* updatedWorkout = JSON.parse(JSON.stringify(activeWorkout!)) is changed and
\* handed to updateActiveWorkout
updateActiveWorkoutOnly(updatedWorkout) ==
    /\ setActiveWorkout(updatedWorkout, deepCopy(refs.active))
    /\ UNCHANGED <<exercises, routines, restDuration, editors, workoutHistory,
                   unfinishedWorkouts, currentView, timer, onCompleteCalls, clock, nextId>>

\* the state update of addSet
addSetUpdate(entryIndex) ==
    /\ inWorkout
    /\ entryIndex \in 1..Len(activeWorkout.entries)
    /\ updateActiveWorkoutOnly(addSetTo(activeWorkout, entryIndex))

\* the state update of updateSet(entryIndex, setIndex, { weight: w })
changeWeightUpdate(entryIndex, setIndex, w) ==
    /\ inWorkout
    /\ entryIndex \in 1..Len(activeWorkout.entries)
    /\ setIndex \in 1..Len(activeWorkout.entries[entryIndex].sets)
    /\ updateActiveWorkoutOnly([activeWorkout EXCEPT
           !.entries[entryIndex].sets[setIndex] = mergeSet(@, [weight |-> w])])

\* the state update of deleteSet
deleteSetUpdate(entryIndex, setIndex) ==
    /\ inWorkout
    /\ entryIndex \in 1..Len(activeWorkout.entries)
    /\ setIndex \in 1..Len(activeWorkout.entries[entryIndex].sets)
    /\ updateActiveWorkoutOnly(withSets(activeWorkout, entryIndex,
           removeAt(activeWorkout.entries[entryIndex].sets, setIndex)))

\* the state update of the back button (App.tsx:743)
onBackUpdate ==
    /\ inWorkout
    /\ setActiveWorkout(NULL, 0)
    /\ currentView' = "routines"
    /\ UNCHANGED <<exercises, routines, restDuration, editors, workoutHistory,
                   unfinishedWorkouts, timer, onCompleteCalls, clock, nextId>>

\* the state updates of resumeWorkout(unfinishedWorkouts[i])
resumeWorkoutUpdate(i) ==
    /\ currentView = "routines"
    /\ i \in 1..Len(unfinishedWorkouts)
    /\ setActiveWorkout(unfinishedWorkouts[i], deepCopy(refs.stored[i]))
    /\ currentView' = "workout"
    /\ UNCHANGED <<exercises, routines, restDuration, editors, workoutHistory,
                   unfinishedWorkouts, timer, onCompleteCalls, clock, nextId>>

\* the state updates of discardWorkout
discardWorkoutUpdate(workoutId) ==
    /\ currentView = "routines"
    /\ \E i \in 1..Len(unfinishedWorkouts) : unfinishedWorkouts[i].id = workoutId
    /\ activeWorkout' = IF activeWorkout.id = workoutId THEN NULL ELSE activeWorkout
    /\ unfinishedWorkouts' = removeWorkout(unfinishedWorkouts, workoutId)
    /\ refs' = [refs EXCEPT !.active = IF activeWorkout.id = workoutId THEN 0 ELSE @,
                            !.mirrored = IF activeWorkout.id = workoutId THEN 0 ELSE @,
                            !.stored = storedWithout(workoutId)]
    /\ UNCHANGED <<exercises, routines, restDuration, editors, workoutHistory,
                   currentView, timer, onCompleteCalls, clock, nextId>>

\* the state updates of finishWorkout
finishWorkoutUpdate ==
    /\ inWorkout
    /\ workoutHistory' = historyAfterFinish(workoutHistory, finishedWorkoutOf(activeWorkout, clock))
    /\ unfinishedWorkouts' = removeWorkout(unfinishedWorkouts, activeWorkout.id)
    /\ activeWorkout' = NULL
    /\ refs' = [active |-> 0, mirrored |-> 0, stored |-> storedWithout(activeWorkout.id)]
    /\ currentView' = "routines"
    /\ timer' = stopTimer(timer)
    /\ clock' = clock + 1
    /\ UNCHANGED <<exercises, routines, restDuration, editors, onCompleteCalls, nextId>>

\* SpecAlias: the workouts of SpecEdit with the state update and the mirroring
\* effect as two steps; an event is handled after the effects of the last render
\* have run.
NextAlias ==
    \/ mirrorEffect
    \/ ~effectPending /\ \E r \in 0..Len(routines) : mayStart /\ startWorkoutUpdate(r)
    \/ ~effectPending /\ \E e \in EntryIdx : mayAddSet(e) /\ addSetUpdate(e)
    \/ ~effectPending /\ \E e \in EntryIdx, s \in SetIdx, w \in 1..MaxWeight :
                            changeWeightUpdate(e, s, w)
    \/ ~effectPending /\ \E e \in EntryIdx, s \in SetIdx : deleteSetUpdate(e, s)
    \/ ~effectPending /\ onBackUpdate
    \/ ~effectPending /\ \E i \in 1..Len(unfinishedWorkouts) : resumeWorkoutUpdate(i)
    \/ ~effectPending /\ \E i \in 1..Len(unfinishedWorkouts) :
                            discardWorkoutUpdate(unfinishedWorkouts[i].id)
    \/ ~effectPending /\ finishWorkoutUpdate

SpecAlias == InitEdit /\ [][NextAlias]_vars

\* ================================================================ claims
ids(sessions) == {sessions[i].id : i \in 1..Len(sessions)}
others(sessions, id) == SelectSeq(sessions, LAMBDA w : w.id # id)
anyCompleted(entry) == \E i \in 1..Len(entry.sets) : entry.sets[i].completed
hasCompletedSet(workout) == \E k \in 1..Len(workout.entries) : anyCompleted(workout.entries[k])

\* C1: whenever a step leaves an active session, the unfinished list holds
\* exactly one session with the active session's id, that session equals the
\* active session, and the sessions with other ids are the ones the list held
\* before the step, in the same order.
C1_MirrorHoldsActiveOnce ==
    [][activeWorkout' # NULL =>
          /\ Cardinality({i \in 1..Len(unfinishedWorkouts') :
                            unfinishedWorkouts'[i].id = activeWorkout'.id}) = 1
          /\ \A i \in 1..Len(unfinishedWorkouts') :
                unfinishedWorkouts'[i].id = activeWorkout'.id
                    => unfinishedWorkouts'[i] = activeWorkout'
          /\ others(unfinishedWorkouts', activeWorkout'.id)
                = others(unfinishedWorkouts, activeWorkout'.id)]_vars

\* C1 witness: a changed active session is mirrored next to another session
C1_Witness ==
    /\ activeWorkout # NULL
    /\ hasCompletedSet(activeWorkout)
    /\ Len(unfinishedWorkouts) = 2
    /\ \E i \in 1..2 : unfinishedWorkouts[i] = activeWorkout
    /\ \E i \in 1..2 : unfinishedWorkouts[i].id # activeWorkout.id

\* C2: no unfinished session is ended, no session id is both in the history and
\* in the unfinished list, and a session id enters the unfinished list only as
\* the fresh id of startWorkout, so a finished session never comes back.
C2_FinishedNeverUnfinished ==
    /\ [](/\ \A i \in 1..Len(unfinishedWorkouts) : ~unfinishedWorkouts[i].ended
          /\ ids(workoutHistory) \cap ids(unfinishedWorkouts) = {})
    /\ [][ids(unfinishedWorkouts') \subseteq ids(unfinishedWorkouts) \cup {nextId}]_vars

\* C2 witness: a finished session is in the history while another is unfinished
C2_Witness ==
    /\ activeWorkout = NULL
    /\ Len(workoutHistory) >= 1
    /\ Len(unfinishedWorkouts) >= 1
    /\ clock > nextId

\* C6: finishWorkout leaves no active session and no unfinished session with
\* the finished id, and keeps the other unfinished sessions as they were.
C6_FinishClearsMirror ==
    [][finishWorkout =>
          /\ activeWorkout' = NULL
          /\ activeWorkout.id \notin ids(unfinishedWorkouts')
          /\ unfinishedWorkouts' = others(unfinishedWorkouts, activeWorkout.id)]_vars

\* C6 witness: a workout was finished while another one stays unfinished
C6_Witness ==
    /\ activeWorkout = NULL
    /\ Len(unfinishedWorkouts) = 1
    /\ nextId = MaxSessions + 1
    /\ clock > nextId

\* the set a workout entry gets when nothing is carried over
zeroSet == [weight |-> 0, reps |-> 0, completed |-> FALSE]

\* the completed sets of exercise x in session S, in order
completedOf(S, x) ==
    IF \E k \in 1..Len(S.entries) : S.entries[k].exerciseId = x
    THEN LET k == CHOOSE k \in 1..Len(S.entries) : S.entries[k].exerciseId = x
         IN SelectSeq(S.entries[k].sets, LAMBDA st : st.completed)
    ELSE <<>>

\* workout w is what the claim says startWorkout(R) makes of the history
seededFrom(R, history, w) ==
    LET cands == {i \in 1..Len(history) : history[i].ended /\ history[i].routineId = R.id}
        last == CHOOSE i \in cands : \A j \in cands : history[j].date <= history[i].date
    IN /\ ~w.ended
       /\ w.routineId = R.id
       /\ Len(w.entries) = Len(R.exerciseIds)
       /\ \A i \in 1..Len(w.entries) :
            LET x == R.exerciseIds[i]
                done == IF cands = {} THEN <<>> ELSE completedOf(history[last], x)
            IN /\ w.entries[i].exerciseId = x
               /\ IF done = <<>>
                  THEN w.entries[i].sets = <<zeroSet>>
                  ELSE /\ Len(w.entries[i].sets) = Len(done)
                       /\ \A j \in 1..Len(done) :
                            /\ w.entries[i].sets[j].weight = done[j].weight
                            /\ w.entries[i].sets[j].reps = done[j].reps
                            /\ ~w.entries[i].sets[j].completed

\* C3: startWorkout(R) makes an active session that is not ended, has R's id
\* and one entry per exercise of R in R's order; each entry holds the completed
\* sets of the latest ended session of R for that exercise, uncompleted, or one
\* 0/0 set when there is no such session or it has no completed set for it.
C3_StartSeedsFromLastSession ==
    [][\A r \in 1..Len(routines) :
          startWorkout(r) => seededFrom(routines[r], workoutHistory, activeWorkout')]_vars

\* C3 witness: a workout of routine 1 was started on a history of two sessions;
\* the squat sets come from the older session, which is the one of routine 1,
\* and bench, which that session lacks, gets the 0/0 set
C3_Witness ==
    /\ activeWorkout # NULL
    /\ activeWorkout.id = MaxSessions
    /\ activeWorkout.routineId = 1
    /\ Len(workoutHistory) = 2
    /\ workoutHistory[1].routineId = 2
    /\ workoutHistory[2].routineId = 1
    /\ Len(workoutHistory[2].entries) = 1
    /\ Len(activeWorkout.entries) = 2
    /\ activeWorkout.entries[1].sets
          = << [weight |-> 2, reps |-> 2, completed |-> FALSE],
               [weight |-> 2, reps |-> 1, completed |-> FALSE] >>
    /\ activeWorkout.entries[2].sets = <<zeroSet>>

\* C4: finishWorkout on a session with a completed set puts one session in
\* front of the history: it has the active session's id and routineId, is ended
\* and holds exactly the entries with a completed set, in order and unchanged;
\* the older history follows unchanged.
C4_FinishPrependsPruned ==
    [][(finishWorkout /\ hasCompletedSet(activeWorkout)) =>
          /\ Len(workoutHistory') = Len(workoutHistory) + 1
          /\ Tail(workoutHistory') = workoutHistory
          /\ Head(workoutHistory').id = activeWorkout.id
          /\ Head(workoutHistory').routineId = activeWorkout.routineId
          /\ Head(workoutHistory').ended
          /\ Head(workoutHistory').entries = SelectSeq(activeWorkout.entries, anyCompleted)]_vars

\* C4 witness: the new session entered the history without the bench entry of
\* routine 1 and with a set that is not completed
C4_Witness ==
    /\ activeWorkout = NULL
    /\ Len(workoutHistory) = 3
    /\ workoutHistory[1].id = MaxSessions
    /\ workoutHistory[1].routineId = 1
    /\ Len(workoutHistory[1].entries) = 1
    /\ workoutHistory[1].entries[1].exerciseId = 1
    /\ \E i \in 1..Len(workoutHistory[1].entries[1].sets) :
          ~workoutHistory[1].entries[1].sets[i].completed

\* C5: finishWorkout on a session without a completed set, a session without
\* entries included, leaves the history as it was.
C5_FinishWithoutCompletedSet ==
    [][(finishWorkout /\ ~hasCompletedSet(activeWorkout)) =>
          workoutHistory' = workoutHistory]_vars

\* C5 witness: the new workout was started and finished (the clock moved
\* twice) and is neither in the history nor unfinished
C5_Witness ==
    /\ activeWorkout = NULL
    /\ nextId = MaxSessions + 1
    /\ clock = 5
    /\ MaxSessions \notin ids(workoutHistory)
    /\ MaxSessions \notin ids(unfinishedWorkouts)
    /\ Len(workoutHistory) = 2

\* C7: after the active session is torn down without finishing, the pending
\* countdown is cancelled: onComplete is not invoked while no session is active.
C7_NoCallbackWithoutSession ==
    [][onCompleteCalls' > onCompleteCalls => activeWorkout # NULL]_vars

\* C8: finishWorkout leaves the timer idle with no interval scheduled, and
\* onComplete is invoked only by the interval of a running timer, so the
\* countdown that ran when the workout was finished never completes.
C8_FinishStopsTimer ==
    [][/\ finishWorkout => (~timer'.isActive /\ timer'.timerRef = NoInterval
                            /\ timer'.intervals = {})
       /\ onCompleteCalls' > onCompleteCalls
             => (timer.isActive /\ timer.intervals = {timer.timerRef})]_vars

\* C8 witness: a workout with a completed set was finished and the countdown
\* its set started is idle with time left and no completion
C8_Witness ==
    /\ activeWorkout = NULL
    /\ Len(workoutHistory) >= 1
    /\ ~timer.isActive
    /\ timer.intervals = {}
    /\ timer.timeLeft = restDuration
    /\ onCompleteCalls = 0

\* the weights of the completed sets of exercise x in the history
historyWeights(x) ==
    UNION { {completedOf(workoutHistory[i], x)[j].weight :
                j \in 1..Len(completedOf(workoutHistory[i], x))} :
            i \in {k \in 1..Len(workoutHistory) : workoutHistory[k].ended} }

\* C9: the completed sets of the active session count for the personal record:
\* a completed set of the active session that is heavier than every completed
\* set of the history, and as heavy as any of the active session, is the record.
C9_ActiveSessionCounts ==
    activeWorkout # NULL =>
        \A x \in ExerciseIds :
            LET mine == completedOf(activeWorkout, x)
            IN \A j \in 1..Len(mine) :
                 (/\ mine[j].weight > 0
                  /\ \A w \in historyWeights(x) : mine[j].weight > w
                  /\ \A k \in 1..Len(mine) : mine[j].weight >= mine[k].weight)
                 => (x \in DOMAIN personalRecords
                     /\ personalRecords[x].weight = mine[j].weight)

\* the completed sets of exercise x of the ended sessions, in the given order
RECURSIVE completedAlong(_, _)
completedAlong(sessions, x) ==
    IF sessions = <<>> THEN <<>>
    ELSE (IF Head(sessions).ended THEN completedOf(Head(sessions), x) ELSE <<>>)
         \o completedAlong(Tail(sessions), x)

\* the first set of greatest weight in a sequence of sets
firstHeaviest(sets) ==
    LET i == CHOOSE i \in 1..Len(sets) :
                /\ \A j \in 1..Len(sets) : sets[j].weight <= sets[i].weight
                /\ \A j \in 1..(i-1) : sets[j].weight < sets[i].weight
    IN [weight |-> sets[i].weight, reps |-> sets[i].reps]

somePositive(sets) == \E i \in 1..Len(sets) : sets[i].weight > 0

\* the history from the oldest session to the newest
RECURSIVE oldestFirst(_)
oldestFirst(sessions) ==
    IF sessions = <<>> THEN <<>>
    ELSE LET i == CHOOSE i \in 1..Len(sessions) :
                     \A j \in 1..Len(sessions) : sessions[i].date <= sessions[j].date
         IN <<sessions[i]>> \o oldestFirst(removeAt(sessions, i))

\* C10 as claimed: the record is the completed set of greatest weight with its
\* own reps, the chronologically first one when several share that weight.
C10_FirstInChronologicalOrder ==
    \A x \in ExerciseIds :
        LET sets == completedAlong(oldestFirst(workoutHistory), x)
        IN somePositive(sets) =>
             (x \in DOMAIN personalRecords /\ personalRecords[x] = firstHeaviest(sets))

\* C10 amended: when a completed set of positive weight exists, the record is
\* the completed set of greatest weight with its own reps, and among several of
\* that weight the first in the order of the scan, which follows the history
\* list (most recently finished session first) and the sets of each session.
C10_FirstInHistoryOrder ==
    \A x \in ExerciseIds :
        LET sets == completedAlong(workoutHistory, x)
        IN somePositive(sets) =>
             (x \in DOMAIN personalRecords /\ personalRecords[x] = firstHeaviest(sets))

\* C10 witness: the session just finished shares the greatest squat weight with
\* an older session that did other reps, and the record has the newer reps
C10_Witness ==
    /\ Len(workoutHistory) >= 2
    /\ workoutHistory[1].id = MaxSessions
    /\ 1 \in DOMAIN personalRecords
    /\ LET new == completedOf(workoutHistory[1], 1)
           old == completedOf(workoutHistory[2], 1)
       IN /\ new # <<>> /\ old # <<>>
          /\ firstHeaviest(new) = personalRecords[1]
          /\ firstHeaviest(old).weight = personalRecords[1].weight
          /\ firstHeaviest(old).reps # personalRecords[1].reps

\* the timer as startTimer leaves it: running for the configured duration on one
\* interval, which is the one timerRef holds
justStarted(t) ==
    /\ t.isActive
    /\ t.timeLeft = restDuration
    /\ t.timerRef # NoInterval
    /\ t.intervals = {t.timerRef}

\* the set of the active session at entry e, set s
setAt(e, s) == activeWorkout.entries[e].sets[s]
hasSet(e, s) ==
    /\ activeWorkout # NULL
    /\ e \in 1..Len(activeWorkout.entries)
    /\ s \in 1..Len(activeWorkout.entries[e].sets)

\* C11: an update that sets completed on a set that was not completed starts
\* the timer for the rest duration; an update of weight or reps and an update
\* that switches completed off leave the timer, a running countdown and its
\* remaining time included, as it was; completed=true on a set that is already
\* completed is not a start.
C11_UpdateSetStartsOnCompletion ==
    /\ [](\A e \in EntryIdx, s \in SetIdx :
            (hasSet(e, s) /\ setAt(e, s).completed)
                => ~startsRest(setAt(e, s), [completed |-> TRUE]))
    /\ [][\A e \in EntryIdx, s \in SetIdx :
            /\ (toggleCompleted(e, s) /\ ~setAt(e, s).completed) => justStarted(timer')
            /\ (toggleCompleted(e, s) /\ setAt(e, s).completed) => timer' = timer
            /\ \A w \in 1..MaxWeight : changeWeight(e, s, w) => timer' = timer
            /\ \A r \in 1..MaxReps : changeReps(e, s, r) => timer' = timer]_vars

\* C11 witness: the only session holds one set that has a weight and is no
\* longer completed, while the countdown its completion started is running
C11_Witness ==
    /\ nextId = 2
    /\ hasSet(1, 1)
    /\ Len(activeWorkout.entries[1].sets) = 1
    /\ setAt(1, 1).weight = MaxWeight
    /\ ~setAt(1, 1).completed
    /\ justStarted(timer)

\* the session keeps its id, date, routineId and ended flag over the step
sameSession ==
    /\ activeWorkout'.id = activeWorkout.id
    /\ activeWorkout'.date = activeWorkout.date
    /\ activeWorkout'.routineId = activeWorkout.routineId
    /\ activeWorkout'.ended = activeWorkout.ended

\* the step keeps the number of entries and every entry but the one at e
onlyEntry(e) ==
    /\ sameSession
    /\ Len(activeWorkout'.entries) = Len(activeWorkout.entries)
    /\ \A k \in 1..Len(activeWorkout.entries) :
          k # e => activeWorkout'.entries[k] = activeWorkout.entries[k]
    /\ activeWorkout'.entries[e].exerciseId = activeWorkout.entries[e].exerciseId

\* the step changes, in entry e, the set at s alone, and of it only field f
onlySetField(e, s, f) ==
    /\ onlyEntry(e)
    /\ activeWorkout'.entries[e].notes = activeWorkout.entries[e].notes
    /\ Len(activeWorkout'.entries[e].sets) = Len(activeWorkout.entries[e].sets)
    /\ \A j \in 1..Len(activeWorkout.entries[e].sets) :
          j # s => activeWorkout'.entries[e].sets[j] = activeWorkout.entries[e].sets[j]
    /\ \A g \in {"weight", "reps", "completed"} \ {f} :
          activeWorkout'.entries[e].sets[s][g] = activeWorkout.entries[e].sets[s][g]

\* the entries but the one of exercise x, in order
entriesBut(workout, x) == SelectSeq(workout.entries, LAMBDA entry : entry.exerciseId # x)

hasEntry(workout, x) == \E k \in 1..Len(workout.entries) : workout.entries[k].exerciseId = x
freshEntry(x) == [exerciseId |-> x, notes |-> "", sets |-> <<zeroSet>>]

\* C13: a call of addExerciseToWorkout(x) on a session that has an entry for x
\* leaves the active session and the unfinished list as they are; a call on a
\* session without one appends one entry for x with a single 0/0 set that is
\* not completed; and the session after two calls is the session after one.
C13_AddExerciseIdempotent ==
    /\ [](activeWorkout # NULL =>
            \A x \in ExerciseIds :
                LET once == addExerciseTo(activeWorkout, x)
                    twice == addExerciseTo(once, x)
                IN /\ twice = once
                   /\ Cardinality({k \in 1..Len(once.entries) :
                                      once.entries[k].exerciseId = x}) = 1)
    /\ [][\A x \in ExerciseIds :
            addExerciseToWorkout(x) =>
                IF hasEntry(activeWorkout, x)
                THEN /\ activeWorkout' = activeWorkout
                     /\ unfinishedWorkouts' = unfinishedWorkouts
                ELSE activeWorkout' = [activeWorkout EXCEPT
                                          !.entries = Append(@, freshEntry(x))]]_vars

\* C13 witness: a blank workout whose squat entry was added and then changed,
\* followed by the bench entry as it is created
C13_Witness ==
    /\ activeWorkout # NULL
    /\ activeWorkout.routineId = 0
    /\ Len(activeWorkout.entries) = 2
    /\ activeWorkout.entries[1].exerciseId = 1
    /\ activeWorkout.entries[1].sets = << [weight |-> 0, reps |-> 0, completed |-> TRUE] >>
    /\ activeWorkout.entries[2] = freshEntry(2)

\* a sequence without two equal elements
noRepeat(seq) == \A i \in 1..Len(seq), j \in 1..Len(seq) : seq[i] = seq[j] => i = j

entryExercises(workout) == [k \in 1..Len(workout.entries) |-> workout.entries[k].exerciseId]

noDuplicates ==
    /\ \A r \in 1..Len(routines) : noRepeat(routines[r].exerciseIds)
    /\ activeWorkout # NULL => noRepeat(entryExercises(activeWorkout))
    /\ \A i \in 1..Len(unfinishedWorkouts) : noRepeat(entryExercises(unfinishedWorkouts[i]))
    /\ \A i \in 1..Len(workoutHistory) : noRepeat(entryExercises(workoutHistory[i]))

\* C14: in every reachable state no routine lists an exercise id twice and no
\* session, active, unfinished or in the history, has two entries of one
\* exercise.
C14_NoDuplicateExercises == noDuplicates

\* the step is an import
isImport == \E doc \in ImportDocs : importData(doc)

\* every step but an import keeps C14: the routine editor, saveRoutine,
\* deleteExercise, startWorkout and addExerciseToWorkout bring in no duplicate
NoDuplicatesButByImport == [][(noDuplicates /\ ~isImport) => noDuplicates']_vars

namesUnique ==
    \A i \in 1..Len(exercises), j \in 1..Len(exercises) :
        toLowerCase(exercises[i].name) = toLowerCase(exercises[j].name) => i = j

\* C15: in every reachable state no two exercises of the catalog have names
\* that are equal when compared without regard to case.
C15_NamesUniqueIgnoringCase == namesUnique

\* every step but an import keeps C15: createAndSaveExercise and saveExercise
\* turn down a name another exercise has, and deleteExercise only removes
NamesUniqueButByImport == [][(namesUnique /\ ~isImport) => namesUnique']_vars

\* another exercise than the one with id except has the name, whatever its case
nameTaken(name, except) ==
    \E i \in 1..Len(exercises) :
        toLowerCase(exercises[i].name) = toLowerCase(name) /\ exercises[i].id # except

\* importData turns the document down
rejected(doc) ==
    ~(doc.parses /\ isArray(doc.exercises) /\ isArray(doc.routines)
      /\ isArray(doc.workoutHistory))

\* the step is a failing operation: a save or a creation of an exercise under a
\* name another exercise has, or an import of a document that is turned down
failingStep ==
    \/ \E name \in Names :
          /\ saveExercise(name)
          /\ nameTaken(name, IF editingExercise = NULL THEN 0 ELSE editingExercise.id)
    \/ \E name \in Names, selected \in BOOLEAN :
          /\ createExerciseForRoutine(name, selected) \/ createExerciseForWorkout(name, selected)
          /\ nameTaken(name, 0)
    \/ \E doc \in ImportDocs : importData(doc) /\ rejected(doc)

\* the step shows one more message, which is an error message
reportsFailure ==
    /\ Len(alerts') = Len(alerts) + 1
    /\ alerts'[Len(alerts')] \in {DuplicateName, ImportFailed}

\* C16: a failing operation shows an error message and leaves every other part
\* of the state, the editors and dialogs included, as it was.
C16_FailureLeavesState ==
    [][failingStep =>
          /\ reportsFailure
          /\ UNCHANGED <<exercises, routines, workoutHistory, restDuration,
                         unfinishedWorkouts, currentView, activeWorkout, timer,
                         onCompleteCalls, clock, nextId, editingRoutine,
                         editingExercise, isEditExerciseModalOpen>>]_vars

\* what holds of C16: a failing operation shows an error message and leaves the
\* exercises, the routines, the history, the rest duration and the sessions as
\* they were
FailureLeavesData ==
    [][failingStep =>
          /\ reportsFailure
          /\ UNCHANGED <<exercises, routines, workoutHistory, restDuration,
                         unfinishedWorkouts, activeWorkout>>]_vars

\* the step calls startTimer: it completes a set that was not completed
startsTimer ==
    \E e \in EntryIdx, s \in SetIdx : toggleCompleted(e, s) /\ ~setAt(e, s).completed

\* C17: a start leaves the timer running with the configured duration as the
\* remaining time and with one interval, its own, whatever the timer was before:
\* idle, completed, or running with another remaining time.
C17_StartReplacesCountdown ==
    [][startsTimer =>
          /\ timer'.isActive
          /\ timer'.timeLeft = restDuration
          /\ Cardinality(timer'.intervals) = 1
          /\ timer'.timerRef \in timer'.intervals
          /\ onCompleteCalls' = 0]_vars

\* C17 witness: the second workout completed a set after the first one did, and
\* the countdown runs for the longest duration, which was set after the launch
C17_Witness ==
    /\ activeWorkout # NULL
    /\ hasCompletedSet(activeWorkout)
    /\ \E i \in 1..Len(unfinishedWorkouts) :
          /\ unfinishedWorkouts[i].id # activeWorkout.id
          /\ hasCompletedSet(unfinishedWorkouts[i])
    /\ restDuration = MaxDuration
    /\ justStarted(timer)
    /\ onCompleteCalls = 0

\* the step is a firing of the interval callback
ticks == \E id \in timer.intervals : intervalTick(id)

\* C18: while the timer runs its remaining time is at least 1; a tick at a
\* remaining time above 1 takes one second off and leaves the timer running
\* with no callback; the tick at remaining time 1 leaves the timer idle without
\* an interval and invokes the callback; the callback is invoked at most once
\* after a start, and an idle timer has no interval that could tick.  So a
\* countdown from d that is left alone runs for d ticks and completes once.
C18_CountsDownAndCompletesOnce ==
    /\ [](/\ timer.isActive => timer.timeLeft >= 1
          /\ ~timer.isActive => timer.intervals = {}
          /\ onCompleteCalls <= 1)
    /\ [][ticks =>
            IF timer.timeLeft > 1
            THEN /\ timer'.isActive
                 /\ timer'.timeLeft = timer.timeLeft - 1
                 /\ timer'.intervals = timer.intervals
                 /\ onCompleteCalls' = onCompleteCalls
            ELSE /\ ~timer'.isActive
                 /\ timer'.timeLeft = 0
                 /\ timer'.intervals = {}
                 /\ onCompleteCalls' = onCompleteCalls + 1]_vars

\* C18 witness: a countdown of the longest duration has completed in the
\* workout that started it
C18_Witness ==
    /\ activeWorkout # NULL
    /\ hasCompletedSet(activeWorkout)
    /\ restDuration = MaxDuration
    /\ ~timer.isActive
    /\ timer.timeLeft = 0
    /\ timer.intervals = {}
    /\ onCompleteCalls = 1

\* the step calls stopTimer and nothing else of the timer: the Stop Timer
\* button, startWorkout and finishWorkout
stops == stopTimerClick \/ finishWorkout \/ \E r \in 0..Len(routines) : startWorkout(r)

\* C19: a stop of a running timer leaves it idle, with no interval left to
\* complete the run, with the remaining time it had and without a call of the
\* callback; a stop of an idle timer leaves the timer as it was; and the
\* callback is called by a tick of a running timer only, so a stopped run
\* never completes.
C19_StopCancelsWithoutCallback ==
    [][/\ stops =>
            /\ ~timer'.isActive
            /\ timer'.intervals = {}
            /\ timer'.timeLeft = timer.timeLeft
            /\ onCompleteCalls' = onCompleteCalls
            /\ ~timer.isActive => timer' = timer
       /\ onCompleteCalls' = onCompleteCalls + 1 => (ticks /\ timer.isActive)]_vars

\* C19 witness: in the workout that started it, a countdown of the longest
\* duration was stopped after two ticks, with one second left and no callback
C19_Witness ==
    /\ activeWorkout # NULL
    /\ hasCompletedSet(activeWorkout)
    /\ nextId = 2
    /\ restDuration = MaxDuration
    /\ ~timer.isActive
    /\ timer.intervals = {}
    /\ timer.timeLeft = 1
    /\ onCompleteCalls = 0

\* C20: the timer has at most one interval, it has one exactly when it is
\* running, and that interval is the one timerRef holds, so an interval that a
\* later start replaced or a stop cancelled is gone; the remaining time changes
\* and the callback is called only by a start, a reset or a tick of that one
\* interval.
C20_OneLiveCountdown ==
    /\ [](/\ Cardinality(timer.intervals) <= 1
          /\ timer.isActive <=> timer.intervals # {}
          /\ timer.intervals = IF timer.timerRef = NoInterval THEN {} ELSE {timer.timerRef})
    /\ [][(timer'.timeLeft # timer.timeLeft \/ onCompleteCalls' > onCompleteCalls) =>
            \/ startsTimer
            \/ resetTimerCalled
            \/ ticks /\ timer.isActive /\ timer.intervals = {timer.timerRef}]_vars

\* C20 witness: the second workout started a countdown of the longest duration
\* after the first workout had started one, a tick has taken one second off,
\* and one interval is scheduled
C20_Witness ==
    /\ activeWorkout # NULL
    /\ hasCompletedSet(activeWorkout)
    /\ \E i \in 1..Len(unfinishedWorkouts) :
          /\ unfinishedWorkouts[i].id # activeWorkout.id
          /\ hasCompletedSet(unfinishedWorkouts[i])
    /\ restDuration = MaxDuration
    /\ timer.isActive
    /\ timer.timeLeft = MaxDuration - 1
    /\ timer.intervals = {timer.timerRef}

\* C21: the callback a completing tick invokes is the one the caller passed in
\* its last render before the tick, whichever callback was current when the
\* countdown was started; onCompleteRef holds that callback in every state.
C21_LatestCallbackInvoked ==
    /\ [](timer.onCompleteRef = timer.onComplete)
    /\ [][onCompleteCalls' = onCompleteCalls + 1 => timer'.invoked = timer.onComplete]_vars

\* C21 witness: a countdown has completed and invoked the callback that
\* replaced the one App passed at launch
C21_Witness ==
    /\ onCompleteCalls = 1
    /\ ~timer.isActive
    /\ timer.timeLeft = 0
    /\ timer.onComplete = "other"
    /\ timer.invoked = "other"

\* a sequence of ids without id, in order
withoutId(seq, id) == SelectSeq(seq, LAMBDA x : x # id)

\* the sessions of the state that have an entry of exercise x
staleIn(sessions, x) ==
    \E i \in 1..Len(sessions) : hasEntry(sessions[i], x)

\* C22: deleteExercise(id) takes the exercise out of the catalog and id out of
\* the exerciseIds of every routine, leaving the routines otherwise, and the
\* other ids of each routine in their order, as they were; the active session,
\* the unfinished sessions and the history are unchanged.
C22_DeleteCascadesToRoutinesOnly ==
    [][\A id \in ExerciseIds :
          deleteExercise(id) =>
              /\ exercises' = SelectSeq(exercises, LAMBDA e : e.id # id)
              /\ Len(routines') = Len(routines)
              /\ \A r \in 1..Len(routines) :
                    /\ routines'[r].id = routines[r].id
                    /\ routines'[r].name = routines[r].name
                    /\ routines'[r].exerciseIds = withoutId(routines[r].exerciseIds, id)
              /\ activeWorkout' = activeWorkout
              /\ unfinishedWorkouts' = unfinishedWorkouts
              /\ workoutHistory' = workoutHistory]_vars

\* C22 witness: squat was deleted and is in no routine, bench is still listed,
\* and a finished and an unfinished session keep their squat entries
C22_Witness ==
    /\ ExerciseIds = {2}
    /\ routines[1].exerciseIds = <<2>>
    /\ staleIn(workoutHistory, 1)
    /\ staleIn(unfinishedWorkouts, 1)

storedCopy == unfinishedWorkouts[indexOfWorkout(unfinishedWorkouts, activeWorkout.id)]

\* the step is the mirroring effect
mirrors == effectPending /\ refs'.mirrored = refs.active /\ refs' # refs

\* every unfinished workout after the step is one of those before it, the same
\* object with the same content
keepsOrDrops ==
    \A j \in 1..Len(unfinishedWorkouts') : \E i \in 1..Len(unfinishedWorkouts) :
        /\ unfinishedWorkouts'[j] = unfinishedWorkouts[i]
        /\ refs'.stored[j] = refs.stored[i]

\* C24: a change to the active session reaches the unfinished collection through
\* the mirroring step only, which writes the entry with the active session's id
\* and leaves the others as they are; a stored copy is never the object of the
\* active session nor of another stored copy, a stored object keeps its content
\* as long as it is stored, and every other step, a mutation of a resumed
\* session included, leaves each stored copy as it is or removes it.
C24_MirrorWritesOwnCopy ==
    /\ [](/\ Len(refs.stored) = Len(unfinishedWorkouts)
          /\ \A i \in 1..Len(refs.stored) :
                /\ refs.stored[i] # refs.active
                /\ \A j \in 1..Len(refs.stored) : refs.stored[i] = refs.stored[j] => i = j)
    /\ [][/\ \A i \in 1..Len(refs.stored), j \in 1..Len(refs'.stored) :
                refs.stored[i] = refs'.stored[j] => unfinishedWorkouts[i] = unfinishedWorkouts'[j]
          /\ mirrors =>
                /\ unfinishedWorkouts'[indexOfWorkout(unfinishedWorkouts', activeWorkout.id)]
                      = activeWorkout
                /\ others(unfinishedWorkouts', activeWorkout.id)
                      = others(unfinishedWorkouts, activeWorkout.id)
                /\ \A i \in 1..Len(unfinishedWorkouts) :
                      unfinishedWorkouts[i].id # activeWorkout.id
                         => refs'.stored[i] = refs.stored[i]
          /\ ~mirrors => keepsOrDrops]_vars

\* the first session was resumed while the second waits, and was changed: its
\* stored copy still has the content of the last mirroring step
C24_Witness ==
    /\ activeWorkout # NULL
    /\ effectPending
    /\ Len(unfinishedWorkouts) = 2
    /\ activeWorkout.id = unfinishedWorkouts[1].id
    /\ storedCopy # activeWorkout
    /\ storedCopy.entries[1].sets[1].weight = 1
    /\ activeWorkout.entries[1].sets[1].weight = 2

\* C25: discardWorkout(id) removes the session with that id from the unfinished
\* workouts and leaves the other unfinished sessions, their order and the history
\* as they are; an active session with that id is cleared; and the discarded
\* session does not come back: a session that is neither active nor unfinished
\* is never put into the unfinished workouts again.
C25_DiscardRemovesForGood ==
    [][/\ \A id \in 1..MaxIds : discardWorkout(id) =>
             /\ unfinishedWorkouts' = others(unfinishedWorkouts, id)
             /\ id \notin ids(unfinishedWorkouts')
             /\ workoutHistory' = workoutHistory
             /\ (activeWorkout.id = id => activeWorkout' = NULL)
             /\ activeWorkout'.id # id
       /\ \A id \in 1..MaxIds :
             (id < nextId /\ id \notin ids(unfinishedWorkouts) /\ activeWorkout.id # id)
                => id \notin ids(unfinishedWorkouts')]_vars

\* two sessions were started and left, and the first was discarded: the clock
\* shows that no session was finished
C25_Witness ==
    /\ nextId = 3
    /\ clock = 3
    /\ activeWorkout = NULL
    /\ ids(unfinishedWorkouts) = {2}
    /\ Len(unfinishedWorkouts[1].entries) = 2
    /\ workoutHistory = <<>>

\* the exercises with "other" for each one that has no bodyPart
withDefaultBodyPart(items) ==
    [i \in 1..Len(items) |->
        IF "bodyPart" \in DOMAIN items[i] THEN items[i]
        ELSE [k \in DOMAIN items[i] \cup {"bodyPart"} |->
                 IF k = "bodyPart" THEN "other" ELSE items[i][k]]]

\* C26: an import of the document exportData writes leaves the exercises (with
\* "other" for an exercise without a bodyPart), the routines, the history and
\* the rest duration as they were exported; and an import of any document
\* changes the rest duration only when the document's restDuration is a number.
C26_ImportRestoresExport ==
    [][/\ importData(JSONparse(exportData)) =>
             /\ alerts' = Append(alerts, ImportSucceeded)
             /\ exercises' = withDefaultBodyPart(exercises)
             /\ routines' = routines
             /\ workoutHistory' = workoutHistory
             /\ restDuration' = restDuration
       /\ \A doc \in ImportDocs \cup {JSONparse(exportData)} :
             (importData(doc) /\ restDuration' # restDuration)
                => doc.restDuration.kind = "number" /\ restDuration' = doc.restDuration.value]_vars

\* a backup with two sessions and a rest duration that no other file has was
\* exported and imported
C26_Witness ==
    /\ alerts = <<ImportSucceeded>>
    /\ Len(workoutHistory) = 2
    /\ restDuration = 2
    /\ exercises[1].bodyPart = "legs"
    /\ Len(routines) = 1

\* the sets of a sequence of sessions are not negative in weight or in reps
nonNegative(sessions) ==
    \A i \in 1..Len(sessions) : \A e \in 1..Len(sessions[i].entries) :
        \A k \in 1..Len(sessions[i].entries[e].sets) :
            /\ sessions[i].entries[e].sets[k].weight >= 0
            /\ sessions[i].entries[e].sets[k].reps >= 0

\* C27: in every reachable state every set of the active session, of the
\* unfinished sessions and of the history has weight >= 0 and reps >= 0.
C27_SetsNonNegative ==
    /\ activeWorkout # NULL => nonNegative(<<activeWorkout>>)
    /\ nonNegative(unfinishedWorkouts)
    /\ nonNegative(workoutHistory)

\* the step types a negative number into a weight or a reps field
typesNegative ==
    \E e \in EntryIdx, s \in SetIdx, typed \in TypedValues :
        /\ typed.kind = "number" /\ typed.value < 0
        /\ changeWeight(e, s, orZero(typed)) \/ changeReps(e, s, orZero(typed))

\* what holds of the claim: a step from a state without negative values leads
\* to one, unless a negative number is typed into a field
NonNegativeButByTyping ==
    [][(C27_SetsNonNegative /\ ~typesNegative) => C27_SetsNonNegative']_vars

\* C28: from an empty history and without import, every session in the history
\* is ended, has at least one entry and at least one completed set in each
\* entry, and no two sessions in the history have the same id.
C28_HistoryWellFormed ==
    /\ \A i \in 1..Len(workoutHistory) :
          /\ workoutHistory[i].ended
          /\ Len(workoutHistory[i].entries) >= 1
          /\ \A e \in 1..Len(workoutHistory[i].entries) :
                anyCompleted(workoutHistory[i].entries[e])
    /\ \A i \in 1..Len(workoutHistory), j \in 1..Len(workoutHistory) :
          workoutHistory[i].id = workoutHistory[j].id => i = j

\* two sessions were finished, one of them with an entry that was left out, and
\* the history is open after the detail of a session was left
C28_Witness ==
    /\ Len(workoutHistory) = 2
    /\ Len(workoutHistory[1].entries) = 1
    /\ Len(workoutHistory[2].entries) = 2
    /\ currentView = "history"
    /\ viewingHistoryItem # NULL
    /\ unfinishedWorkouts = <<>>

\* C29: the back button of the workout view leaves the unfinished workouts as
\* they are, with the active session stored in them as it was last, and leaves
\* the history; resumeWorkout of a stored session makes the active session equal
\* to it, with ended false, and changes neither the unfinished workouts nor the
\* history.
C29_BackKeepsResumeRestores ==
    [][/\ onBack =>
             /\ activeWorkout' = NULL
             /\ unfinishedWorkouts' = unfinishedWorkouts
             /\ storedCopy = activeWorkout
             /\ workoutHistory' = workoutHistory
       /\ \A i \in 1..Len(unfinishedWorkouts) : resumeWorkout(i) =>
             /\ activeWorkout' = unfinishedWorkouts[i]
             /\ ~activeWorkout'.ended
             /\ unfinishedWorkouts' = unfinishedWorkouts
             /\ workoutHistory' = workoutHistory]_vars

\* the first session, left with a completed set, a typed weight and a note, is
\* active again while the second waits: it was resumed as it was stored
C29_Witness ==
    /\ Len(unfinishedWorkouts) = 2
    /\ activeWorkout = unfinishedWorkouts[1]
    /\ activeWorkout.id = 1
    /\ Len(activeWorkout.entries) = 1
    /\ activeWorkout.entries[1].notes = "slow"
    /\ activeWorkout.entries[1].sets = << [weight |-> 2, reps |-> 1, completed |-> TRUE] >>
    /\ currentView = "workout"

\* the sessions personalRecords scans: the ended ones of the history followed
\* by the active session
scannedSets(x) ==
    completedAlong(IF activeWorkout = NULL THEN workoutHistory
                   ELSE Append(workoutHistory, activeWorkout), x)

\* C30: the lookup has no record for an exercise of the catalog exactly when no
\* scanned session has a completed set of the exercise; a completed set gives a
\* record also when every completed set has weight 0.
C30_RecordIffCompletedSet ==
    \A x \in ExerciseIds : x \notin DOMAIN personalRecords <=> scannedSets(x) = <<>>

\* what holds of the claim: the lookup has a record exactly when a scanned
\* session has a completed set of the exercise with a weight above 0
RecordIffPositiveSet ==
    \A x \in ExerciseIds : x \in DOMAIN personalRecords <=> somePositive(scannedSets(x))
====
